---- MODULE Spec2Model ----
(***************************************************************************)
(* A model of the z-ingest broker: the batched persistence pipeline        *)
(* (app/db/persistence.py over app/db/database.py), the connection         *)
(* registry (app/core/connections.py) and the edge and consumer WebSocket  *)
(* handlers (app/api/websocket.py, app/core/handlers.py).                  *)
(*                                                                         *)
(* The program runs on one asyncio event loop: a task runs without         *)
(* interruption from one await that really suspends to the next.  Every    *)
(* action below is one such run of one task.                               *)
(***************************************************************************)
EXTENDS Integers, Sequences, FiniteSets, TLC

----------------------------------------------------------------------------
\* Bounds of the model.

\* Records enqueued on the two persistence queues together during a run.
MaxRec == 3

\* PersistenceManager.batch_size (50 by default), scaled down.
BatchSize == 2

\* Prediction messages one consumer sends during a run.
MaxMsgs == 2

\* Failures of the sink injected at the exit of a session scope, after the
\* explicit commit of the flush has gone through, during a run.
MaxExitFailures == 1

\* settings.buffer_max_size, the maxlen of every StreamBuffer (1000 by
\* default), scaled down.
Capacity == 2

\* add_sample calls on one StreamBuffer exercised on its own.
MaxAppends == 4

\* clear() and clear(user_id) calls on one StreamBuffer exercised on its own.
MaxClears == 2

\* Messages of a type other than "prediction" one consumer sends.
MaxDropped == 1

\* Queries (get_last_n, get_range) made on one StreamBuffer exercised on its
\* own.
MaxN == 3

\* Heartbeats, and messages of an unknown type, an edge connection sends.
MaxControl == 1

\* start() calls.
MaxStarts == 2

----------------------------------------------------------------------------
\* The fixed sets of the model.

\* prediction_buffer and raw_sample_buffer.
Queues == {"pred", "raw"}

\* Edge WebSocket connections (each runs edge_relay_endpoint once).
Edges == {"e1", "e2"}

\* Consumer WebSocket connections (each runs consumer_endpoint once).
Consumers == {"k1", "k2"}

\* The consumer connections that send messages back to the broker.
Senders == {"k1"}

Users == {"u1", "u2"}

\* Everything that can run flush_predictions / flush_raw_samples: the
\* background ticker task, the caller of stop(), and the tasks that call
\* add_prediction / add_raw_sample.
Flushers == {"ticker", "stop"} \cup Edges \cup Consumers

NoConn == "no_conn"
NoUser == "no_user"

\* app.state.buffers has no entry for the user.
NoBuffer == "no_buffer"

\* sample_type of a sample, and the last part of a topic name.
Kinds == {"features", "raw"}

\* A filter argument that is None.
NoFilter == "None"

\* The user_id and sample_type arguments of a query: None, a known value,
\* or a value no sample has.
FilterUsers == Users \cup {NoFilter, "u9"}
FilterKinds == Kinds \cup {NoFilter, "bogus"}

\* The steps of the shutdown part of lifespan, in order.
ShutdownSteps == <<"persistence.stop", "redis.close", "db.close">>

\* The reason= of websocket.close() on the three authentication failures.
AuthFailures == {"Authentication timeout", "Invalid API key", "Missing user_id"}

\* WebSocket close code used for every authentication failure.
PolicyViolation == 1008

----------------------------------------------------------------------------
VARIABLES
    \* PersistenceManager
    running,      \* _running
    flushTask,    \* _flush_task: "none" | "sleep" | "flushing" | "finished"
    cancelReq,    \* _flush_task.cancel() was called and not yet delivered
    queue,        \* queue[q]: the deque of record ids, oldest first
    nextId,       \* nextId[q]: records enqueued on q so far (the next id)
    frame,        \* frame[f]: the flush that task f has in flight
    stopPc,       \* the caller of stop(): "idle" | "await_task" | "flushing"
                  \*   | "returned" | "raised"
    stopMark,     \* nextId at the latest call of stop()
    \* the datastore
    sinkUp,       \* whether a transaction on the sink succeeds now
    sink,         \* sink[q]: the committed records, in commit order
    logged,       \* logged[q]: records of batches whose failure was logged
    exitFailures, \* failures injected at the exit of a session scope
    \* ConnectionManager and edge handlers
    edges,        \* edges[u]: the registered edge connection of user u
    epc,          \* epc[e]: where edge_relay_endpoint is for connection e
    euser,        \* euser[e]: the user_id e authenticated as
    sock,         \* sock[e]: "open" | "dead" (peer gone) | "closed"
    closeCode,    \* closeCode[e]: code of websocket.close(), 0 if none
    session,      \* session[e]: the Session row: "none" | "open" | "ended"
    gauge,        \* metrics.edge_connections
    delivered,    \* delivered[e]: predictions sent to e
    closeReason,  \* closeReason[e]: reason of websocket.close(), "" if none
    msgFailed,    \* msgFailed[e]: metrics.messages_failed, for e's messages
    endErrors,    \* connections whose end_session failure was logged
    \* app.state.buffers and the StreamBuffers
    buffers,      \* buffers[u]: NoBuffer, or the samples retained, oldest first
    appended,     \* appended[u]: every sample given to add_sample, in order
    clears,       \* clears[u]: clear() and clear(user_id) calls so far
    cleared,      \* cleared[u]: the user_id argument of the latest of them
    received,     \* received[u][q]: metrics.messages_received
    \* consumer handlers
    kpc,          \* kpc[k]: where consumer_endpoint is for connection k
    kuser,        \* kuser[k]: the user_id of the /subscribe/{user_id} path
    ktarget,      \* ktarget[k]: the socket send_to_edge is sending on
    kres,         \* kres[k]: result of the last send_to_edge call
    kattempts,    \* kattempts[k]: send_json calls made for the last message
    kmsgs,        \* kmsgs[k]: prediction messages received from k
    kdropped,     \* kdropped[k]: messages of another type received from k
    consumers,    \* ConnectionManager.consumers: the registered consumers
    subscribed,   \* subscribed[k]: k's pubsub holds its two subscriptions
    kfwd,         \* kfwd[k]: forward_from_redis: "none" | "running" | "done"
    khandler,     \* khandler[k]: consumer_endpoint: "none" | "gather"
                  \*   | "finally" | "returned"
    \* the pub/sub transport
    topicUp,      \* whether a publish on the transport succeeds now
    published,    \* published[t]: calls of publish on topic t so far
    kinbox,       \* kinbox[k]: messages k's pubsub holds, not yet forwarded
    kgot,         \* kgot[k]: messages sent to consumer k, in order
    pubLogged,    \* "Redis publish error" lines logged
    \* queries on a StreamBuffer
    query,        \* the latest query: its arguments, the buffer, its result
    \* lifespan
    shutPc,       \* lifespan: 0 up to the return of persistence.stop(),
                  \*   i when shutdown step i is next, Len + 1 when shutdown
                  \*   is complete, -1 when an exception left lifespan
    shutRan,      \* the shutdown steps that were executed
    \* control messages of the edge connections
    acks,         \* acks[e]: heartbeat_ack messages sent to e
    warned,       \* warned[e]: "Unknown message type" warnings logged for e
    \* configuration
    settings,     \* the feature switches of Settings, fixed at start-up
    \* the predictions table
    rejected,     \* records of the prediction queue without a session_id
    \* PersistenceManager.start
    starts,       \* start() calls so far
    spawned,      \* asyncio.create_task(self._periodic_flush()) calls so far
    \* PredictionRecord fields
    ptype         \* ptype[i + 1]: prediction_type and classifier_name of
                  \*   prediction record i

pvars == <<running, flushTask, cancelReq, queue, nextId, frame,
           stopPc, stopMark>>
svars == <<sinkUp, sink, logged, exitFailures>>
xvars == <<closeReason, msgFailed, endErrors>>
bvars == <<buffers, appended, clears, cleared, received>>
eothers == <<edges, euser, sock, closeCode, session, gauge, delivered,
             xvars, bvars>>
evars == <<epc, eothers>>
cvars == <<kdropped, consumers, subscribed, kfwd, khandler>>
kothers == <<kuser, ktarget, kres, kattempts, kmsgs, cvars>>
kvars == <<kpc, kothers>>
tvars == <<topicUp, published, kinbox, kgot, pubLogged>>
lvars == <<shutPc, shutRan>>
hvars == <<acks, warned>>
gvars == <<settings, rejected, starts, spawned>>
ovars == <<tvars, query, lvars, hvars, gvars>>
nvars == <<ovars, ptype>>
vars == <<pvars, svars, evars, kvars, nvars>>

----------------------------------------------------------------------------
\* Sequences of record ids.

Elems(s) == {s[i] : i \in 1..Len(s)}

Ascending(s) == \A i, j \in 1..Len(s) : i < j => s[i] < s[j]

----------------------------------------------------------------------------
\* PersistenceManager: the pure parts.

IdleFrame == [st |-> "idle", q |-> "pred", batch |-> <<>>, touched |-> FALSE]

\* self.prediction_buffer.append(prediction)
AddRecord(buf, r) == Append(buf, r)

\* A threshold test that is off by one.
ThresholdReachedLate(buf) == Len(buf) > BatchSize

\* if len(self.prediction_buffer) >= self.batch_size
ThresholdReached(buf) == Len(buf) >= BatchSize

\* self.prediction_buffer.extend(records)
Requeue(buf, records) == buf \o records

\* A flush that lets the sink's exception through.
FlushCatchesNothing(kind) == FALSE

\* "except Exception" of flush_predictions / flush_raw_samples: it catches
\* what the sink raises ("Exception"), not asyncio.CancelledError, which
\* derives from BaseException.
FlushCatches(kind) == kind = "Exception"

\* Frames of the other tasks after queue q was appended to (an enqueue or a
\* batch put back) by task f: their in-flight flush of q has seen the queue
\* change since it detached its batch.
Touch(fr, q, f) ==
    [g \in Flushers |->
        IF g # f /\ fr[g].st # "idle" /\ fr[g].q = q
        THEN [fr[g] EXCEPT !.touched = TRUE]
        ELSE fr[g]]

\* records = list(buffer); buffer.clear(); then the first await of the
\* transaction: the frame of a flush that has just detached its batch.
Detached(q, buf) == [st |-> "commit", q |-> q, batch |-> buf, touched |-> FALSE]

\* "while self._running" of _periodic_flush, evaluated after flush_all.
LoopAgain == IF running THEN "sleep" ELSE "finished"

\* Settings: enable_redis_pubsub and enable_database_persistence as the
\* environment leaves them ("true" unless ENABLE_REDIS_PUBSUB or
\* ENABLE_DB_PERSISTENCE says otherwise).
DefaultSettings == [pubsub |-> TRUE, db |-> TRUE]

\* The values the environment can give the two switches.
Switches == [pubsub : BOOLEAN, db : BOOLEAN]

\* settings.enable_database_persistence
EnableDbPersistence == settings.db

\* Handlers that take pub/sub to be enabled whatever the settings say.
RedisPubsubAlwaysOn == TRUE

\* settings.enable_redis_pubsub
EnableRedisPubsub == settings.pubsub

\* A handle_features that leaves prediction_type and classifier_name to
\* the defaults.
RecordLabelsDefault(f) == <<"azure_ml", "azure_unknown">>

\* prediction_type and classifier_name of the record task f enqueues with
\* add_prediction: the literals of handle_features for an edge handler, the
\* defaults of receive_from_consumer for a consumer handler.
RecordLabels(f) ==
    IF f \in Edges THEN <<"workload_edge", "edge_relay">>
    ELSE <<"azure_ml", "azure_unknown">>

----------------------------------------------------------------------------
\* Topics and messages.

\* The sample kind of the messages that feed queue q: "features" messages
\* go to add_prediction, "raw" messages to add_raw_sample.
KindOf(q) == IF q = "pred" THEN "features" ELSE "raw"

\* f"user:{user_id}:features" and f"user:{user_id}:raw", as the parts the
\* string is made of.
Topic(u, kind) == <<"user", u, kind>>

Topics == {Topic(u, kind) : u \in Users, kind \in Kinds}

\* pubsub.subscribe(f"user:{user_id}:features", f"user:{user_id}:raw")
ConsumerTopics(u) == {Topic(u, "features"), Topic(u, "raw")}

\* The decoded envelope of an edge message of the given type: the type tag
\* and the payload fields.
Envelope(kind) == [type |-> kind, workload |-> "w"]

\* msgpack.packb and msgpack.unpackb
Packb(x) == <<"msgpack", x>>
Unpackb(b) == b[2]

\* The object handle_* publishes: msgpack.packb(data), data being the whole
\* decoded envelope.
PublishedPayload(env) == Packb(env)

\* An inner handler that lets the exception of publish through.
PublishCatchesNothing(exc) == FALSE

\* "except Exception" around redis.publish in handle_*
PublishCatches(exc) == exc = "Exception"

----------------------------------------------------------------------------
\* StreamBuffer: the pure parts.

\* The last n elements of s.
LastN(s, n) == IF Len(s) <= n THEN s ELSE SubSeq(s, Len(s) - n + 1, Len(s))

\* The sample add_sample builds: seq stands for its timestamp (its position
\* among the samples given to this buffer), user for its user_id, kind for
\* its sample_type.
Sample(n, u, kind) == [seq |-> n, user |-> u, kind |-> kind]

\* The query variable before any query.
NoQuery == [op |-> "none", n |-> 0, lo |-> 0, hi |-> 0,
            user |-> NoFilter, kind |-> NoFilter, result |-> <<>>]

\* list(reversed(s))
Reversed(s) == [i \in 1..Len(s) |-> s[Len(s) + 1 - i]]

\* s[-n:] of a Python list: the whole list for n = 0 (s[-0:] is s[0:]), the
\* last n elements for n > 0, the list without its first -n elements for
\* n < 0.
SliceFromMinus(s, n) ==
    IF n = 0 THEN s
    ELSE IF n > 0 THEN LastN(s, n)
    ELSE SubSeq(s, 1 - n, Len(s))

\* The samples of buf that pass the user_id and sample_type filters.
Filtered(buf, u, kind) ==
    LET Passes(x) == /\ (u # NoFilter => x.user = u)
                     /\ (kind # NoFilter => x.kind = kind)
    IN  SelectSeq(buf, Passes)

\* get_last_n(n, user_id, sample_type)
GetLastN(buf, n, u, kind) ==
    IF buf = <<>> THEN <<>>
    ELSE Reversed(SliceFromMinus(Filtered(buf, u, kind), n))

\* A get_range whose end bound is exclusive.
GetRangeHalfOpen(buf, lo, hi, u, kind) ==
    LET InRange(x) == lo <= x.seq /\ x.seq < hi
    IN  SelectSeq(Filtered(buf, u, kind), InRange)

\* get_range(start_time, end_time, user_id, sample_type)
GetRange(buf, lo, hi, u, kind) ==
    LET InRange(x) ==
            /\ lo <= x.seq /\ x.seq <= hi
            /\ (u = NoFilter \/ x.user = u)
            /\ (kind = NoFilter \/ x.kind = kind)
    IN  IF buf = <<>> THEN <<>> ELSE SelectSeq(buf, InRange)

\* An append on a deque without maxlen.
AppendUnbounded(buf, s) == Append(buf, s)

\* An append that refuses the new sample when the buffer is full.
AppendDropsNewest(buf, s) == IF Len(buf) >= Capacity THEN buf ELSE Append(buf, s)

\* self._buffer.append(sample) on a deque(maxlen=Capacity): a full deque
\* discards its leftmost element; with maxlen 0 it retains nothing.
AppendSample(buf, s) ==
    IF Capacity = 0 THEN <<>>
    ELSE IF Len(buf) >= Capacity THEN Append(Tail(buf), s)
    ELSE Append(buf, s)

\* clear(): self._buffer.clear()
ClearAll(buf) == <<>>

\* A clear(user_id) that keeps the samples of user_id and removes the others.
ClearOthers(buf, u) ==
    LET OfUser(x) == x.user = u
    IN  SelectSeq(buf, OfUser)

\* clear(user_id): deque((s for s in self._buffer if s["user_id"] !=
\* user_id), maxlen=self.maxlen); a deque built from an iterable keeps its
\* last maxlen elements.
ClearUser(buf, u) ==
    LET NotOfUser(x) == x.user # u
    IN  LastN(SelectSeq(buf, NotOfUser), Capacity)

\* A StreamBuffer made anew for every authenticated connection.
EnsureBufferFresh(bufs, u) == [bufs EXCEPT ![u] = <<>>]

\* "if user_id not in app.state.buffers: app.state.buffers[user_id] =
\* StreamBuffer(maxlen=settings.buffer_max_size)"
EnsureBuffer(bufs, u) ==
    IF bufs[u] = NoBuffer THEN [bufs EXCEPT ![u] = <<>>] ELSE bufs

----------------------------------------------------------------------------
TypeOK ==
    /\ running \in BOOLEAN
    /\ flushTask \in {"none", "sleep", "flushing", "finished"}
    /\ cancelReq \in BOOLEAN
    /\ \A q \in Queues : nextId[q] \in 0..MaxRec
    /\ exitFailures \in 0..MaxExitFailures
    /\ \A f \in Flushers : frame[f].st \in {"idle", "commit", "exit"}
    /\ stopPc \in {"idle", "await_task", "flushing", "returned", "raised"}
    /\ sinkUp \in BOOLEAN
    /\ \A u \in Users : edges[u] \in Edges \cup {NoConn}
    /\ \A e \in Edges :
          /\ epc[e] \in {"await_auth", "create_session", "send_ack", "loop",
                         "add", "teardown", "end_session", "closed"}
          /\ euser[e] \in Users \cup {NoUser}
          /\ sock[e] \in {"open", "dead", "closed"}
          /\ closeCode[e] \in {0, PolicyViolation}
          /\ session[e] \in {"none", "open", "ended"}
          /\ closeReason[e] \in AuthFailures \cup {""}
          /\ msgFailed[e] \in 0..1
    /\ endErrors \subseteq Edges
    /\ \A u \in Users :
          /\ buffers[u] # NoBuffer => Len(buffers[u]) \in 0..MaxAppends
          /\ clears[u] \in 0..MaxClears
          /\ cleared[u] \in Users \cup {NoFilter}
          /\ \A q \in Queues :
                received[u][q] \in 0..(MaxRec + Cardinality(Edges))
    /\ consumers \subseteq Consumers
    /\ \A k \in Consumers :
          /\ kpc[k] \in {"none", "loop", "sending", "add", "closed"}
          /\ kres[k] \in {"none", "delivered", "not_delivered"}
          /\ kdropped[k] \in 0..MaxDropped
          /\ subscribed[k] \in BOOLEAN
          /\ kfwd[k] \in {"none", "running", "done"}
          /\ khandler[k] \in {"none", "gather", "finally", "returned"}
          /\ Len(kinbox[k]) + Len(kgot[k]) <= MaxRec
    /\ topicUp \in BOOLEAN
    /\ \A t \in Topics : published[t] \in 0..MaxRec
    /\ pubLogged \in 0..MaxRec
    /\ shutPc \in -1..(Len(ShutdownSteps) + 1)
    /\ shutRan \subseteq Elems(ShutdownSteps)
    /\ settings \in Switches
    /\ rejected \subseteq 0..(MaxRec - 1)
    /\ starts \in 0..MaxStarts
    /\ spawned \in 0..MaxStarts
    /\ \A e \in Edges : acks[e] \in 0..MaxControl /\ warned[e] \in 0..MaxControl
    /\ Len(ptype) = nextId["pred"]

\* The state after construction: PersistenceManager.__init__,
\* ConnectionManager.__init__, and connections that have been accepted and
\* have sent nothing yet.
Init ==
    /\ running = FALSE
    /\ flushTask = "none"
    /\ cancelReq = FALSE
    /\ queue = [q \in Queues |-> <<>>]
    /\ nextId = [q \in Queues |-> 0]
    /\ frame = [f \in Flushers |-> IdleFrame]
    /\ stopPc = "idle"
    /\ stopMark = [q \in Queues |-> 0]
    /\ sinkUp = TRUE
    /\ sink = [q \in Queues |-> <<>>]
    /\ logged = [q \in Queues |-> {}]
    /\ exitFailures = 0
    /\ edges = [u \in Users |-> NoConn]
    /\ epc = [e \in Edges |-> "await_auth"]
    /\ euser = [e \in Edges |-> NoUser]
    /\ sock = [e \in Edges |-> "open"]
    /\ closeCode = [e \in Edges |-> 0]
    /\ session = [e \in Edges |-> "none"]
    /\ gauge = 0
    /\ delivered = [e \in Edges |-> 0]
    /\ closeReason = [e \in Edges |-> ""]
    /\ msgFailed = [e \in Edges |-> 0]
    /\ endErrors = {}
    /\ buffers = [u \in Users |-> NoBuffer]
    /\ appended = [u \in Users |-> <<>>]
    /\ clears = [u \in Users |-> 0]
    /\ cleared = [u \in Users |-> NoFilter]
    /\ received = [u \in Users |-> [q \in Queues |-> 0]]
    /\ kpc = [k \in Consumers |-> "none"]
    /\ kuser = [k \in Consumers |-> NoUser]
    /\ ktarget = [k \in Consumers |-> NoConn]
    /\ kres = [k \in Consumers |-> "none"]
    /\ kattempts = [k \in Consumers |-> 0]
    /\ kmsgs = [k \in Consumers |-> 0]
    /\ kdropped = [k \in Consumers |-> 0]
    /\ consumers = {}
    /\ subscribed = [k \in Consumers |-> FALSE]
    /\ kfwd = [k \in Consumers |-> "none"]
    /\ khandler = [k \in Consumers |-> "none"]
    /\ topicUp = TRUE
    /\ published = [t \in Topics |-> 0]
    /\ kinbox = [k \in Consumers |-> <<>>]
    /\ kgot = [k \in Consumers |-> <<>>]
    /\ pubLogged = 0
    /\ query = NoQuery
    /\ shutPc = 0
    /\ shutRan = {}
    /\ acks = [e \in Edges |-> 0]
    /\ warned = [e \in Edges |-> 0]
    /\ ptype = <<>>
    /\ settings = DefaultSettings
    /\ rejected = {}
    /\ starts = 0
    /\ spawned = 0

----------------------------------------------------------------------------
\* The datastore fails and recovers on its own.

SinkDown ==
    /\ sinkUp
    /\ sinkUp' = FALSE
    /\ UNCHANGED <<sink, logged, exitFailures, pvars, evars, kvars>>
    /\ UNCHANGED nvars

SinkRecover ==
    /\ ~sinkUp
    /\ sinkUp' = TRUE
    /\ UNCHANGED <<sink, logged, exitFailures, pvars, evars, kvars>>
    /\ UNCHANGED nvars

----------------------------------------------------------------------------
\* PersistenceManager.

\* A start() without its guard.
StartReturnsEarlyNever(r) == FALSE

\* start(): "if self._running: return"
StartReturnsEarly(r) == r

\* start()
Start ==
    /\ stopPc = "idle"
    /\ starts < MaxStarts
    /\ starts' = starts + 1
    /\ IF StartReturnsEarly(running)
       THEN UNCHANGED <<running, flushTask, spawned>>
       ELSE /\ running' = TRUE
            /\ flushTask' = "sleep"
            /\ spawned' = spawned + 1
    /\ UNCHANGED <<cancelReq, queue, nextId, frame, stopPc, stopMark,
                   svars, evars, kvars>>
    /\ UNCHANGED <<tvars, query, lvars, hvars, settings, rejected, ptype>>

\* The start() of lifespan, the first call.
FirstStart ==
    /\ starts = 0
    /\ Start

\* What task f does when its flush of queue q has returned (exc = FALSE) or
\* raised (exc = TRUE), the queues then being qA and the frames frA:
\*   ticker, stop: flush_all goes on to flush_raw_samples, which returns at
\*     once on an empty queue; then _periodic_flush tests _running and
\*     sleeps again, and stop() returns.  _periodic_flush catches and logs
\*     an exception of flush_all; stop() lets it through;
\*   an edge handler: add_* and handle_* return to the message loop; an
\*     exception is re-raised by handle_*, caught by the loop's
\*     "except Exception" and ends the loop;
\*   a consumer handler: receive_from_consumer reads the next message; an
\*     exception ends asyncio.gather and the handler.
After(f, q, exc, qA, frA) ==
    LET more == /\ f \in {"ticker", "stop"}
                /\ ~exc
                /\ q = "pred"
                /\ qA["raw"] # <<>>
    IN  /\ queue' = IF more THEN [qA EXCEPT !["raw"] = <<>>] ELSE qA
        /\ frame' = IF more
                    THEN [frA EXCEPT ![f] = Detached("raw", qA["raw"])]
                    ELSE frA
        /\ flushTask' = IF f = "ticker" /\ ~more THEN LoopAgain ELSE flushTask
        /\ stopPc' = IF f = "stop" /\ ~more
                     THEN (IF exc THEN "raised" ELSE "returned")
                     ELSE stopPc
        /\ epc' = IF f \in Edges
                  THEN [epc EXCEPT ![f] = IF exc THEN "teardown" ELSE "loop"]
                  ELSE epc
        /\ kpc' = IF f \in Consumers
                  THEN [kpc EXCEPT ![f] = IF exc THEN "closed" ELSE "loop"]
                  ELSE kpc

\* A flush_all that leaves out flush_raw_samples.
BeginFlushAllPredOnly(f) ==
    IF queue["pred"] # <<>>
    THEN /\ queue' = [queue EXCEPT !["pred"] = <<>>]
         /\ frame' = [frame EXCEPT ![f] = Detached("pred", queue["pred"])]
    ELSE UNCHANGED <<queue, frame>>

\* flush_all() called by task f (the ticker or stop()): flush_predictions,
\* then flush_raw_samples, each returning at once on an empty queue.  TRUE
\* when one of them detached a batch and is now waiting for the sink.
BeginFlushAll(f) ==
    IF \E q \in Queues : queue[q] # <<>>
    THEN LET q == IF queue["pred"] # <<>> THEN "pred" ELSE "raw"
         IN  /\ queue' = [queue EXCEPT ![q] = <<>>]
             /\ frame' = [frame EXCEPT ![f] = Detached(q, queue[q])]
    ELSE UNCHANGED <<queue, frame>>

\* _periodic_flush: asyncio.sleep(flush_interval) is over, flush_all().
Tick ==
    /\ flushTask = "sleep"
    /\ ~cancelReq
    /\ BeginFlushAll("ticker")
    /\ flushTask' = IF frame'["ticker"].st # "idle" THEN "flushing" ELSE "sleep"
    /\ UNCHANGED <<running, cancelReq, nextId, stopPc, stopMark,
                   svars, evars, kvars>>
    /\ UNCHANGED nvars

\* stop(): _running = False; _flush_task.cancel(); await _flush_task.  With
\* no task, or a finished one, it goes on to the final flush_all() at once.
StopCall ==
    /\ stopPc \in {"idle", "returned", "raised"}
    /\ running' = FALSE
    /\ stopMark' = nextId
    /\ IF flushTask \in {"sleep", "flushing"}
       THEN /\ cancelReq' = TRUE
            /\ stopPc' = "await_task"
            /\ UNCHANGED <<queue, frame>>
       ELSE /\ BeginFlushAll("stop")
            /\ stopPc' = IF frame'["stop"].st # "idle"
                         THEN "flushing" ELSE "returned"
            /\ UNCHANGED cancelReq
    /\ UNCHANGED <<flushTask, nextId, svars, evars, kvars>>
    /\ UNCHANGED nvars

\* The ticker task is resumed with CancelledError at the await it is
\* suspended in: asyncio.sleep, or the transaction of a flush.  In a flush
\* the error passes "except Exception" (FlushCatches), so the detached batch
\* is neither put back nor logged; _periodic_flush catches it and breaks.
TickerCancelled ==
    /\ cancelReq
    /\ cancelReq' = FALSE
    /\ flushTask' = "finished"
    /\ LET fr == frame["ticker"]
       IN  IF fr.st # "idle" /\ FlushCatches("CancelledError")
           THEN /\ queue' = [queue EXCEPT ![fr.q] = Requeue(@, fr.batch)]
                /\ logged' = [logged EXCEPT ![fr.q] = @ \cup Elems(fr.batch)]
                /\ frame' = [Touch(frame, fr.q, "ticker")
                                EXCEPT !["ticker"] = IdleFrame]
           ELSE /\ frame' = [frame EXCEPT !["ticker"] = IdleFrame]
                /\ UNCHANGED <<queue, logged>>
    /\ UNCHANGED <<running, nextId, stopPc, stopMark, sinkUp, sink,
                   exitFailures, evars, kvars>>
    /\ UNCHANGED nvars

\* stop() after "await self._flush_task": the final flush_all().
StopResume ==
    /\ stopPc = "await_task"
    /\ flushTask = "finished"
    /\ BeginFlushAll("stop")
    /\ stopPc' = IF frame'["stop"].st # "idle"
                 THEN "flushing" ELSE "returned"
    /\ UNCHANGED <<running, flushTask, cancelReq, nextId, stopMark,
                   svars, evars, kvars>>
    /\ UNCHANGED nvars

\* Task f is suspended in the transaction of a flush and will be resumed
\* with its result (a cancelled ticker is resumed with CancelledError).
Waiting(f, st) ==
    /\ frame[f].st = st
    /\ ~(f = "ticker" /\ cancelReq)

\* The predictions table has session_id NOT NULL: the INSERT of a batch
\* that holds a record without session_id fails as a whole.
Rejects(fr) == fr.q = "pred" /\ Elems(fr.batch) \cap rejected # {}

\* flush_*: "async with self.db.get_session()", session.add_all(...) and
\* "await session.commit()" went through: the batch is in the sink.  What is
\* left is the exit of get_session's scope.
CommitOk(f) ==
    /\ Waiting(f, "commit")
    /\ sinkUp
    /\ ~Rejects(frame[f])
    /\ sink' = [sink EXCEPT ![frame[f].q] = @ \o frame[f].batch]
    /\ frame' = [frame EXCEPT ![f].st = "exit"]
    /\ UNCHANGED <<running, flushTask, cancelReq, queue, nextId,
                   stopPc, stopMark, sinkUp, logged, exitFailures,
                   evars, kvars>>
    /\ UNCHANGED nvars

\* The transaction of f's flush raised.  get_session rolls back and
\* re-raises; flush_* catches it (FlushCatches), logs it and puts the batch
\* back on the queue, and returns normally.
FlushFailed(f) ==
    LET fr == frame[f]
    IN  IF FlushCatches("Exception")
        THEN /\ logged' = [logged EXCEPT ![fr.q] = @ \cup Elems(fr.batch)]
             /\ After(f, fr.q, FALSE,
                      [queue EXCEPT ![fr.q] = Requeue(@, fr.batch)],
                      [Touch(frame, fr.q, f) EXCEPT ![f] = IdleFrame])
        ELSE /\ UNCHANGED logged
             /\ After(f, fr.q, TRUE, queue, [frame EXCEPT ![f] = IdleFrame])

\* The sink fails before the explicit commit has gone through.
CommitFail(f) ==
    /\ Waiting(f, "commit")
    /\ ~sinkUp
    /\ FlushFailed(f)
    /\ UNCHANGED <<running, cancelReq, nextId, stopMark, sinkUp, sink,
                   exitFailures, eothers, kothers>>
    /\ UNCHANGED nvars

\* The sink is up and refuses the batch (IntegrityError at the commit):
\* nothing of the batch is written.
CommitRejected(f) ==
    /\ Waiting(f, "commit")
    /\ sinkUp
    /\ Rejects(frame[f])
    /\ FlushFailed(f)
    /\ UNCHANGED <<running, cancelReq, nextId, stopMark, sinkUp, sink,
                   exitFailures, eothers, kothers>>
    /\ UNCHANGED nvars

\* get_session after the yield: "await session.commit()" again, then
\* session.close(); flush_* logs the batch as flushed and returns.
ExitOk(f) ==
    /\ Waiting(f, "exit")
    /\ sinkUp
    /\ After(f, frame[f].q, FALSE, queue, [frame EXCEPT ![f] = IdleFrame])
    /\ UNCHANGED <<running, cancelReq, nextId, stopMark, svars,
                   eothers, kothers>>
    /\ UNCHANGED nvars

\* The sink fails at the exit of get_session's scope, after the explicit
\* commit of flush_* has gone through.
ExitFail(f) ==
    /\ Waiting(f, "exit")
    /\ ~sinkUp
    /\ exitFailures < MaxExitFailures
    /\ exitFailures' = exitFailures + 1
    /\ FlushFailed(f)
    /\ UNCHANGED <<running, cancelReq, nextId, stopMark, sinkUp, sink,
                   eothers, kothers>>
    /\ UNCHANGED nvars

\* Records enqueued so far.
Enqueued == nextId["pred"] + nextId["raw"]

\* add_prediction (q = "pred") / add_raw_sample (q = "raw") called by task
\* f: append the record; at the threshold, flush_*: detach the whole queue
\* and wait for the sink.
Enqueue(f, q) ==
    LET buf == AddRecord(queue[q], nextId[q])
        fr  == Touch(frame, q, f)
    IN  /\ Enqueued < MaxRec
        /\ nextId' = [nextId EXCEPT ![q] = @ + 1]
        /\ IF ThresholdReached(buf)
           THEN /\ queue' = [queue EXCEPT ![q] = <<>>]
                /\ frame' = [fr EXCEPT ![f] = Detached(q, buf)]
           ELSE /\ queue' = [queue EXCEPT ![q] = buf]
                /\ frame' = fr
        /\ ptype' = IF q = "pred" THEN Append(ptype, RecordLabels(f))
                    ELSE ptype

\* Whether the enqueue of the next record on q starts a flush.
Flushes(q) == ThresholdReached(AddRecord(queue[q], nextId[q]))

----------------------------------------------------------------------------
\* ConnectionManager.

\* connect_edge(user_id, websocket)
ConnectEdge(reg, u, e) == [reg EXCEPT ![u] = e]

\* disconnect_edge(user_id)
DisconnectEdge(reg, u) == [reg EXCEPT ![u] = NoConn]

\* send_to_edge: "if user_id not in self.edges: return False"
Registered(reg, u) == reg[u] # NoConn

\* A send_to_edge that leaves a dead connection registered.
OnSendErrorKeep(reg, u) == reg

\* send_to_edge, "except Exception": self.disconnect_edge(user_id)
OnSendError(reg, u) == DisconnectEdge(reg, u)

----------------------------------------------------------------------------
\* edge_relay_endpoint, one run per connection e.

\* A rejection that comes after the connection was registered.
AuthRejectRegistered(e) ==
    /\ epc[e] = "await_auth"
    /\ sock[e] = "open"
    /\ epc' = [epc EXCEPT ![e] = "closed"]
    /\ sock' = [sock EXCEPT ![e] = "closed"]
    /\ closeCode' = [closeCode EXCEPT ![e] = PolicyViolation]
    /\ \E why \in AuthFailures :
          closeReason' = [closeReason EXCEPT ![e] = why]
    /\ \E u \in Users : edges' = ConnectEdge(edges, u, e)
    /\ UNCHANGED <<euser, session, gauge, delivered, msgFailed,
                   endErrors, bvars, pvars, svars, kvars>>
    /\ UNCHANGED nvars

\* No auth message within 10 s, a wrong api_key, or no user_id:
\* websocket.close(code=1008) and return.
AuthReject(e) ==
    /\ epc[e] = "await_auth"
    /\ sock[e] = "open"
    /\ epc' = [epc EXCEPT ![e] = "closed"]
    /\ sock' = [sock EXCEPT ![e] = "closed"]
    /\ closeCode' = [closeCode EXCEPT ![e] = PolicyViolation]
    /\ \E why \in AuthFailures :
          closeReason' = [closeReason EXCEPT ![e] = why]
    /\ UNCHANGED <<edges, euser, session, gauge, delivered, msgFailed,
                   endErrors, bvars, pvars, svars, kvars>>
    /\ UNCHANGED nvars

\* The peer went away before it sent its auth message: receive_json raises
\* WebSocketDisconnect, which leaves edge_relay_endpoint.
AuthDisconnect(e) ==
    /\ epc[e] = "await_auth"
    /\ sock[e] = "dead"
    /\ epc' = [epc EXCEPT ![e] = "closed"]
    /\ sock' = [sock EXCEPT ![e] = "closed"]
    /\ UNCHANGED <<edges, euser, closeCode, session, gauge, delivered,
                   xvars, bvars, pvars, svars, kvars>>
    /\ UNCHANGED nvars

\* A valid auth message for user u: connect_edge(u, websocket),
\* metrics.edge_connections.inc(), then "await create_session(...)".
AuthOk(e, u) ==
    /\ epc[e] = "await_auth"
    /\ sock[e] = "open"
    /\ edges' = ConnectEdge(edges, u, e)
    /\ gauge' = gauge + 1
    /\ euser' = [euser EXCEPT ![e] = u]
    /\ epc' = [epc EXCEPT ![e] = "create_session"]
    /\ UNCHANGED <<sock, closeCode, session, delivered, xvars, bvars,
                   pvars, svars, kvars>>
    /\ UNCHANGED nvars

\* create_session: the row is inserted and committed, then "await
\* websocket.send_json(auth_ack)"; or the sink raises, and the exception
\* leaves edge_relay_endpoint (nothing catches it there).
CreateSession(e) ==
    /\ epc[e] = "create_session"
    /\ IF sinkUp
       THEN /\ session' = [session EXCEPT ![e] = "open"]
            /\ epc' = [epc EXCEPT ![e] = "send_ack"]
            /\ UNCHANGED sock
       ELSE /\ epc' = [epc EXCEPT ![e] = "closed"]
            /\ sock' = [sock EXCEPT ![e] = "closed"]
            /\ UNCHANGED session
    /\ UNCHANGED <<edges, euser, closeCode, gauge, delivered, xvars, bvars,
                   pvars, svars, kvars>>
    /\ UNCHANGED nvars

\* send_json(auth_ack) went through, the user's StreamBuffer is ensured and
\* the message loop waits in websocket.receive(); or the send raises on a
\* dead socket and the exception leaves edge_relay_endpoint.
SendAck(e) ==
    /\ epc[e] = "send_ack"
    /\ IF sock[e] = "open"
       THEN /\ epc' = [epc EXCEPT ![e] = "loop"]
            /\ buffers' = EnsureBuffer(buffers, euser[e])
            /\ UNCHANGED sock
       ELSE /\ epc' = [epc EXCEPT ![e] = "closed"]
            /\ sock' = [sock EXCEPT ![e] = "closed"]
            /\ UNCHANGED buffers
    /\ UNCHANGED <<edges, euser, closeCode, session, gauge, delivered,
                   xvars, appended, clears, cleared, received, pvars, svars,
                   kvars>>
    /\ UNCHANGED nvars

\* The peer goes away.
ClientDrop(e) ==
    /\ sock[e] = "open"
    /\ epc[e] # "closed"
    /\ sock' = [sock EXCEPT ![e] = "dead"]
    /\ UNCHANGED <<edges, epc, euser, closeCode, session, gauge, delivered,
                   xvars, bvars, pvars, svars, kvars>>
    /\ UNCHANGED nvars

\* StreamBuffer.add_sample on the buffer of user b, for a sample of user u.
AddSample(b, u, kind) ==
    LET s == Sample(Len(appended[b]), u, kind)
    IN  /\ buffers' = [buffers EXCEPT ![b] = AppendSample(@, s)]
        /\ appended' = [appended EXCEPT ![b] = Append(@, s)]

\* A subscriber that is given the messages of every topic.
SubscribesToAll(k, t) == subscribed[k]

\* Whether consumer k's pubsub holds a subscription to topic t.
Subscribes(k, t) == subscribed[k] /\ t \in ConsumerTopics(kuser[k])

\* redis.publish(f"user:{u}:{kind}", msgpack.packb(data)) is called: when
\* the transport is up, every pubsub subscribed to the topic is handed the
\* message; else publish raises and nothing is handed out.
Publish(u, kind, data) ==
    LET t == Topic(u, kind)
        m == [type |-> "message", channel |-> t,
              data |-> PublishedPayload(data)]
    IN  /\ published' = [published EXCEPT ![t] = @ + 1]
        /\ kinbox' = [k \in Consumers |->
                         IF topicUp /\ Subscribes(k, t)
                         THEN Append(kinbox[k], m) ELSE kinbox[k]]

\* A "features" (q = "pred") or "raw" (q = "raw") message: handle_features /
\* handle_raw_sample count it, append to the user's StreamBuffer, publish
\* when pub/sub is enabled (an Exception of publish is logged by the inner
\* handler), and enqueue with add_prediction / add_raw_sample when
\* persistence is enabled.  An exception that leaves the inner handler is
\* counted in messages_failed and re-raised, and the message loop is over.
Recv(e, q) ==
    LET u      == euser[e]
        kind   == KindOf(q)
        raised == /\ EnableRedisPubsub
                  /\ ~topicUp
                  /\ ~PublishCatches("Exception")
    IN  /\ epc[e] = "loop"
        /\ sock[e] = "open"
        /\ ~EnableDbPersistence => received[u][q] < MaxRec
        /\ received' = [received EXCEPT ![u][q] = @ + 1]
        /\ AddSample(u, u, kind)
        /\ IF EnableRedisPubsub
           THEN Publish(u, kind, Envelope(kind))
           ELSE UNCHANGED <<published, kinbox>>
        /\ pubLogged' = IF /\ EnableRedisPubsub
                           /\ ~topicUp
                           /\ PublishCatches("Exception")
                        THEN pubLogged + 1 ELSE pubLogged
        /\ IF raised
           THEN /\ msgFailed' = [msgFailed EXCEPT ![e] = @ + 1]
                /\ epc' = [epc EXCEPT ![e] = "teardown"]
                /\ UNCHANGED <<queue, nextId, frame, ptype>>
           ELSE /\ UNCHANGED msgFailed
                /\ IF EnableDbPersistence
                   THEN /\ Enqueue(e, q)
                        /\ epc' = [epc EXCEPT ![e] =
                                      IF Flushes(q) THEN "add" ELSE "loop"]
                   ELSE UNCHANGED <<queue, nextId, frame, epc, ptype>>
        /\ UNCHANGED <<running, flushTask, cancelReq, stopPc, stopMark,
                       svars, edges, euser, sock, closeCode, session, gauge,
                       delivered, closeReason, endErrors, clears, cleared, kvars,
                       topicUp, kgot, query, lvars, hvars, gvars>>

RecvFeatures(e) == Recv(e, "pred")

\* A message loop that ends on a message of unknown type.
OnUnknownTypeBreak == "teardown"

\* Where edge_relay_endpoint is after a message of unknown type: the final
\* else logs a warning and the loop reads the next message.
OnUnknownType == "loop"

\* A "heartbeat" message: {"type": "heartbeat_ack"} is sent back.
RecvHeartbeat(e) ==
    /\ epc[e] = "loop"
    /\ sock[e] = "open"
    /\ acks[e] < MaxControl
    /\ acks' = [acks EXCEPT ![e] = @ + 1]
    /\ UNCHANGED <<warned, evars, pvars, svars, kvars, tvars, query, lvars,
                   ptype, gvars>>

\* A message whose type is none of "features", "raw", "heartbeat".
RecvUnknown(e) ==
    /\ epc[e] = "loop"
    /\ sock[e] = "open"
    /\ warned[e] < MaxControl
    /\ warned' = [warned EXCEPT ![e] = @ + 1]
    /\ epc' = [epc EXCEPT ![e] = OnUnknownType]
    /\ UNCHANGED <<acks, eothers, pvars, svars, kvars, tvars, query, lvars,
                   ptype, gvars>>

RecvRaw(e) == Recv(e, "raw")

\* A "features" or "raw" message whose handler raises an Exception inside
\* its try block: handle_* counts it in messages_failed and re-raises; the
\* "except Exception" around the message loop logs it, and the loop is over.
RecvFails(e, q) ==
    /\ epc[e] = "loop"
    /\ sock[e] = "open"
    /\ msgFailed[e] = 0
    /\ received' = [received EXCEPT ![euser[e]][q] = @ + 1]
    /\ msgFailed' = [msgFailed EXCEPT ![e] = @ + 1]
    /\ epc' = [epc EXCEPT ![e] = "teardown"]
    /\ UNCHANGED <<edges, euser, sock, closeCode, session, gauge, delivered,
                   closeReason, endErrors, buffers, appended, clears, cleared,
                   pvars, svars, kvars>>
    /\ UNCHANGED nvars

\* The message loop ends (a disconnect message, or an exception caught by
\* the loop's handlers); finally: disconnect_edge(user_id), the gauges are
\* decremented, then "await end_session(...)".
Finally(e) ==
    /\ \/ epc[e] = "loop" /\ sock[e] = "dead"
       \/ epc[e] = "teardown"
    /\ edges' = DisconnectEdge(edges, euser[e])
    /\ gauge' = gauge - 1
    /\ epc' = [epc EXCEPT ![e] = "end_session"]
    /\ UNCHANGED <<euser, sock, closeCode, session, delivered, xvars, bvars,
                   pvars, svars, kvars>>
    /\ UNCHANGED nvars

\* end_session: end_time is set; a failure is logged and swallowed.  The
\* handler returns and the socket is closed.
EndSession(e) ==
    /\ epc[e] = "end_session"
    /\ session' = [session EXCEPT ![e] = IF sinkUp THEN "ended" ELSE @]
    /\ epc' = [epc EXCEPT ![e] = "closed"]
    /\ sock' = [sock EXCEPT ![e] = "closed"]
    /\ endErrors' = IF sinkUp THEN endErrors ELSE endErrors \cup {e}
    /\ UNCHANGED <<edges, euser, closeCode, gauge, delivered, closeReason,
                   msgFailed, bvars, pvars, svars, kvars>>
    /\ UNCHANGED nvars

----------------------------------------------------------------------------
\* StreamBuffer, its operations called on the buffer of user b.

\* add_sample(..., user_id=u, sample_type=kind)
BufferAdd(b, u, kind) ==
    /\ buffers[b] # NoBuffer
    /\ Len(appended[b]) < MaxAppends
    /\ AddSample(b, u, kind)
    /\ UNCHANGED <<clears, cleared, received, epc, edges, euser, sock,
                   closeCode,
                   session, gauge, delivered, xvars, pvars, svars, kvars>>
    /\ UNCHANGED nvars

\* clear()
BufferClear(b) ==
    /\ buffers[b] # NoBuffer
    /\ clears[b] < MaxClears
    /\ buffers' = [buffers EXCEPT ![b] = ClearAll(@)]
    /\ clears' = [clears EXCEPT ![b] = @ + 1]
    /\ cleared' = [cleared EXCEPT ![b] = NoFilter]
    /\ UNCHANGED <<appended, received, epc, edges, euser, sock, closeCode,
                   session, gauge, delivered, xvars, pvars, svars, kvars>>
    /\ UNCHANGED nvars

\* clear(user_id=u)
BufferClearUser(b, u) ==
    /\ buffers[b] # NoBuffer
    /\ clears[b] < MaxClears
    /\ buffers' = [buffers EXCEPT ![b] = ClearUser(@, u)]
    /\ clears' = [clears EXCEPT ![b] = @ + 1]
    /\ cleared' = [cleared EXCEPT ![b] = u]
    /\ UNCHANGED <<appended, received, epc, edges, euser, sock, closeCode,
                   session, gauge, delivered, xvars, pvars, svars, kvars>>
    /\ UNCHANGED nvars

----------------------------------------------------------------------------
\* consumer_endpoint, one run per connection k.

\* /subscribe/{u} is opened: accepted, registered (connect_consumer),
\* subscribed to the user's two topics; asyncio.gather starts the two tasks:
\* forward_from_redis waits in pubsub.listen(), receive_from_consumer in
\* websocket.receive_json().
ConsumerConnect(k, u) ==
    /\ kpc[k] = "none"
    /\ kpc' = [kpc EXCEPT ![k] = "loop"]
    /\ kuser' = [kuser EXCEPT ![k] = u]
    /\ consumers' = consumers \cup {k}
    /\ subscribed' = [subscribed EXCEPT ![k] = TRUE]
    /\ kfwd' = [kfwd EXCEPT ![k] = "running"]
    /\ khandler' = [khandler EXCEPT ![k] = "gather"]
    /\ UNCHANGED <<ktarget, kres, kattempts, kmsgs, kdropped,
                   pvars, svars, evars>>
    /\ UNCHANGED nvars

\* What the end of one of k's two tasks does to consumer_endpoint: a handler
\* waiting in asyncio.gather gets the task's exception at once and goes to
\* its finally clause; gather does not cancel the other task.
GatherEnds(k) ==
    [khandler EXCEPT ![k] = IF @ = "gather" THEN "finally" ELSE @]

\* forward_from_redis ends: pubsub.listen(), msgpack.unpackb or
\* websocket.send_json raises, or, once the subscriptions are released,
\* listen() is exhausted.
ForwardEnds(k) ==
    /\ kfwd[k] = "running"
    /\ kfwd' = [kfwd EXCEPT ![k] = "done"]
    /\ khandler' = GatherEnds(k)
    /\ UNCHANGED <<kpc, kuser, ktarget, kres, kattempts, kmsgs, kdropped,
                   consumers, subscribed, pvars, svars, evars>>
    /\ UNCHANGED nvars

\* The consumer goes away: receive_json raises WebSocketDisconnect in
\* receive_from_consumer, which ends.
ConsumerDrop(k) ==
    /\ kpc[k] = "loop"
    /\ kpc' = [kpc EXCEPT ![k] = "closed"]
    /\ khandler' = GatherEnds(k)
    /\ UNCHANGED <<kuser, ktarget, kres, kattempts, kmsgs, kdropped,
                   consumers, subscribed, kfwd, pvars, svars, evars>>
    /\ UNCHANGED nvars

\* consumer_endpoint, finally: disconnect_consumer(consumer_id), "await
\* pubsub.unsubscribe()", and the handler returns.
ConsumerFinally(k) ==
    /\ khandler[k] = "finally"
    /\ consumers' = consumers \ {k}
    /\ subscribed' = [subscribed EXCEPT ![k] = FALSE]
    /\ khandler' = [khandler EXCEPT ![k] = "returned"]
    /\ UNCHANGED <<kpc, kuser, ktarget, kres, kattempts, kmsgs, kdropped,
                   kfwd, pvars, svars, evars>>
    /\ UNCHANGED nvars

\* receive_from_consumer reads a message whose type is not "prediction":
\* nothing is done with it and the next message is read.
ConsumerOther(k) ==
    /\ kpc[k] = "loop"
    /\ kdropped[k] < MaxDropped
    /\ kdropped' = [kdropped EXCEPT ![k] = @ + 1]
    /\ UNCHANGED <<kpc, kuser, ktarget, kres, kattempts, kmsgs,
                   consumers, subscribed, kfwd, khandler,
                   pvars, svars, evars>>
    /\ UNCHANGED nvars

\* receive_from_consumer reads a message of type "prediction" and calls
\* send_to_edge(user_id, msg): with no edge registered it returns False and
\* the next message is read; else "await self.edges[user_id].send_json(msg)".
ConsumerSend(k) ==
    /\ kpc[k] = "loop"
    /\ kmsgs[k] < MaxMsgs
    /\ kmsgs' = [kmsgs EXCEPT ![k] = @ + 1]
    /\ IF Registered(edges, kuser[k])
       THEN /\ ktarget' = [ktarget EXCEPT ![k] = edges[kuser[k]]]
            /\ kattempts' = [kattempts EXCEPT ![k] = 1]
            /\ kres' = [kres EXCEPT ![k] = "none"]
            /\ kpc' = [kpc EXCEPT ![k] = "sending"]
       ELSE /\ kres' = [kres EXCEPT ![k] = "not_delivered"]
            /\ kattempts' = [kattempts EXCEPT ![k] = 0]
            /\ UNCHANGED <<ktarget, kpc>>
    /\ UNCHANGED <<kuser, cvars, pvars, svars, evars>>
    /\ UNCHANGED nvars

\* send_json returned: send_to_edge returns True and receive_from_consumer
\* calls add_prediction.
SendOk(k) ==
    /\ kpc[k] = "sending"
    /\ sock[ktarget[k]] = "open"
    /\ kres' = [kres EXCEPT ![k] = "delivered"]
    /\ delivered' = [delivered EXCEPT ![ktarget[k]] = @ + 1]
    /\ Enqueue(k, "pred")
    /\ kpc' = [kpc EXCEPT ![k] = IF Flushes("pred") THEN "add" ELSE "loop"]
    /\ UNCHANGED <<running, flushTask, cancelReq, stopPc, stopMark, svars,
                   edges, epc, euser, sock, closeCode, session, gauge,
                   xvars, bvars, kuser, ktarget, kattempts, kmsgs, cvars>>
    /\ UNCHANGED ovars

\* As SendOk, for a prediction message that has no "session_id" key:
\* add_prediction is called with session_id=None.
SendOkNoSession(k) ==
    /\ kpc[k] = "sending"
    /\ sock[ktarget[k]] = "open"
    /\ kres' = [kres EXCEPT ![k] = "delivered"]
    /\ delivered' = [delivered EXCEPT ![ktarget[k]] = @ + 1]
    /\ Enqueue(k, "pred")
    /\ rejected' = rejected \cup {nextId["pred"]}
    /\ kpc' = [kpc EXCEPT ![k] = IF Flushes("pred") THEN "add" ELSE "loop"]
    /\ UNCHANGED <<running, flushTask, cancelReq, stopPc, stopMark, svars,
                   edges, epc, euser, sock, closeCode, session, gauge,
                   xvars, bvars, kuser, ktarget, kattempts, kmsgs, cvars>>
    /\ UNCHANGED <<tvars, query, lvars, hvars, settings, starts, spawned>>

\* A receive_from_consumer that stores the prediction whatever send_to_edge
\* returned.
SendFailStores(k) ==
    /\ kpc[k] = "sending"
    /\ sock[ktarget[k]] # "open"
    /\ edges' = OnSendError(edges, kuser[k])
    /\ kres' = [kres EXCEPT ![k] = "not_delivered"]
    /\ Enqueue(k, "pred")
    /\ kpc' = [kpc EXCEPT ![k] = IF Flushes("pred") THEN "add" ELSE "loop"]
    /\ UNCHANGED <<running, flushTask, cancelReq, stopPc, stopMark, svars,
                   epc, euser, sock, closeCode, session, gauge, delivered,
                   xvars, bvars, kuser, ktarget, kattempts, kmsgs, cvars>>
    /\ UNCHANGED ovars

\* send_json raised (the socket is dead or closed): send_to_edge logs,
\* calls disconnect_edge(user_id) and returns False; "if success" fails and
\* receive_from_consumer reads the next message.
SendFail(k) ==
    /\ kpc[k] = "sending"
    /\ sock[ktarget[k]] # "open"
    /\ edges' = OnSendError(edges, kuser[k])
    /\ kres' = [kres EXCEPT ![k] = "not_delivered"]
    /\ kpc' = [kpc EXCEPT ![k] = "loop"]
    /\ UNCHANGED <<epc, euser, sock, closeCode, session, gauge, delivered,
                   xvars, bvars, kuser, ktarget, kattempts, kmsgs, cvars,
                   pvars, svars>>
    /\ UNCHANGED nvars

----------------------------------------------------------------------------
\* Queries on a StreamBuffer.

\* buffers[b].get_last_n(n, user_id=u, sample_type=kind)
GetLastNCall(b, n, u, kind) ==
    /\ buffers[b] # NoBuffer
    /\ query' = [op |-> "get_last_n", n |-> n, lo |-> 0, hi |-> 0,
                 user |-> u, kind |-> kind,
                 result |-> GetLastN(buffers[b], n, u, kind)]
    /\ UNCHANGED <<pvars, svars, evars, kvars, tvars, lvars, hvars, gvars, ptype>>

\* buffers[b].get_range(lo, hi, user_id=u, sample_type=kind)
GetRangeCall(b, lo, hi, u, kind) ==
    /\ buffers[b] # NoBuffer
    /\ query' = [op |-> "get_range", n |-> 0, lo |-> lo, hi |-> hi,
                 user |-> u, kind |-> kind,
                 result |-> GetRange(buffers[b], lo, hi, u, kind)]
    /\ UNCHANGED <<pvars, svars, evars, kvars, tvars, lvars, hvars, gvars, ptype>>

\* The timestamps a query names.
Times == 0..(MaxAppends - 1)

----------------------------------------------------------------------------
\* The pub/sub transport and forward_from_redis.

\* The transport fails and recovers on its own.
TopicDown ==
    /\ topicUp
    /\ topicUp' = FALSE
    /\ UNCHANGED <<published, kinbox, kgot, pubLogged, query, lvars, hvars, gvars, ptype,
                   pvars, svars, evars, kvars>>

TopicUp ==
    /\ ~topicUp
    /\ topicUp' = TRUE
    /\ UNCHANGED <<published, kinbox, kgot, pubLogged, query, lvars, hvars, gvars, ptype,
                   pvars, svars, evars, kvars>>

\* forward_from_redis of consumer k: pubsub.listen() yields the next
\* message; data = msgpack.unpackb(message["data"]) is sent to the consumer
\* with send_json.  kgot keeps the channel the data came from with it.
Forward(k) ==
    /\ kfwd[k] = "running"
    /\ kpc[k] # "closed"
    /\ kinbox[k] # <<>>
    /\ LET m == Head(kinbox[k])
       IN  /\ m.type = "message"
           /\ kgot' = [kgot EXCEPT ![k] =
                          Append(@, [channel |-> m.channel,
                                     data |-> Unpackb(m.data)])]
    /\ kinbox' = [kinbox EXCEPT ![k] = Tail(@)]
    /\ UNCHANGED <<topicUp, published, pubLogged, query, lvars, hvars, gvars, ptype,
                   pvars, svars, evars, kvars>>

----------------------------------------------------------------------------
\* lifespan, after the yield: the three shutdown steps, awaited one after
\* the other with no handler around them.

\* "await app.state.persistence.stop()" is called.
ShutdownBegins ==
    /\ shutPc = 0
    /\ stopPc = "idle"
    /\ StopCall

\* persistence.stop() is over: lifespan goes on to the second step when it
\* returned, and is left by the exception when it raised.
AfterStop ==
    /\ shutPc = 0
    /\ stopPc \in {"returned", "raised"}
    /\ shutRan' = shutRan \cup {ShutdownSteps[1]}
    /\ shutPc' = IF stopPc = "raised" THEN -1 ELSE 2
    /\ UNCHANGED <<tvars, query, hvars, gvars, ptype, pvars, svars, evars, kvars>>

\* Shutdown step i, redis.close() or db.close(), is awaited: it returns
\* (ok) and lifespan goes on, or it raises and the exception leaves
\* lifespan.
Close(i, ok) ==
    /\ i \in 2..Len(ShutdownSteps)
    /\ shutPc = i
    /\ shutRan' = shutRan \cup {ShutdownSteps[i]}
    /\ shutPc' = IF ok THEN i + 1 ELSE -1
    /\ UNCHANGED <<tvars, query, hvars, gvars, ptype, pvars, svars, evars, kvars>>

CloseOk(i) == Close(i, TRUE)

CloseFails(i) == Close(i, FALSE)

----------------------------------------------------------------------------
\* The whole broker.

FlushStep ==
    \E f \in Flushers :
        \/ CommitOk(f)
        \/ CommitFail(f)
        \/ ExitOk(f)
        \/ ExitFail(f)

PersistenceStep ==
    \/ FirstStart
    \/ Tick
    \/ StopCall
    \/ TickerCancelled
    \/ StopResume

EdgeLifeStep ==
    \E e \in Edges :
        \/ AuthReject(e)
        \/ AuthDisconnect(e)
        \/ \E u \in Users : AuthOk(e, u)
        \/ CreateSession(e)
        \/ SendAck(e)
        \/ ClientDrop(e)
        \/ Finally(e)
        \/ EndSession(e)

EdgeErrorStep ==
    \E e \in Edges : \E q \in Queues : RecvFails(e, q)

EdgeMessageStep ==
    \E e \in Edges :
        \/ RecvFeatures(e)
        \/ RecvRaw(e)

ConsumerStep ==
    \E k \in Senders :
        \/ \E u \in Users : ConsumerConnect(k, u)
        \/ ConsumerSend(k)
        \/ SendOk(k)
        \/ SendFail(k)

ConsumerLifeStep ==
    \E k \in Senders :
        \/ ConsumerOther(k)
        \/ ForwardEnds(k)
        \/ ConsumerDrop(k)
        \/ ConsumerFinally(k)

ControlStep ==
    \E e \in Edges :
        \/ RecvHeartbeat(e)
        \/ RecvUnknown(e)

RejectStep ==
    \/ \E k \in Senders : SendOkNoSession(k)
    \/ \E f \in Flushers : CommitRejected(f)

TransportStep ==
    \/ TopicDown
    \/ TopicUp

ListenStep ==
    \E k \in Consumers :
        \/ \E u \in Users : ConsumerConnect(k, u)
        \/ Forward(k)

ShutdownStep ==
    \/ ShutdownBegins
    \/ TickerCancelled
    \/ StopResume
    \/ AfterStop
    \/ \E i \in 2..Len(ShutdownSteps) :
          \/ CloseOk(i)
          \/ CloseFails(i)

QueryStep ==
    /\ query = NoQuery
    /\ \E u \in FilterUsers : \E kind \in FilterKinds :
          \/ \E n \in 0..MaxN : GetLastNCall("u1", n, u, kind)
          \/ \E lo \in Times : \E hi \in Times :
                GetRangeCall("u1", lo, hi, u, kind)

Next ==
    \/ SinkDown
    \/ SinkRecover
    \/ PersistenceStep
    \/ FlushStep
    \/ EdgeLifeStep
    \/ EdgeMessageStep
    \/ EdgeErrorStep
    \/ ConsumerStep
    \/ ConsumerLifeStep
    \/ TransportStep
    \/ ListenStep
    \/ ShutdownStep
    \/ QueryStep
    \/ ControlStep
    \/ RejectStep
    \/ Start

Spec == Init /\ [][Next]_vars

----------------------------------------------------------------------------
\* The persistence pipeline under load: the broker with its edge
\* connections authenticated and in their message loops (e1 as u1, e2 as
\* u2), from where the pipeline is started, fed, flushed and stopped.

InitPersistWith(st) ==
    /\ running = FALSE
    /\ flushTask = "none"
    /\ cancelReq = FALSE
    /\ queue = [q \in Queues |-> <<>>]
    /\ nextId = [q \in Queues |-> 0]
    /\ frame = [f \in Flushers |-> IdleFrame]
    /\ stopPc = "idle"
    /\ stopMark = [q \in Queues |-> 0]
    /\ sinkUp = TRUE
    /\ sink = [q \in Queues |-> <<>>]
    /\ logged = [q \in Queues |-> {}]
    /\ exitFailures = 0
    /\ edges = [u \in Users |-> IF u = "u1" THEN "e1" ELSE "e2"]
    /\ epc = [e \in Edges |-> "loop"]
    /\ euser = [e \in Edges |-> IF e = "e1" THEN "u1" ELSE "u2"]
    /\ sock = [e \in Edges |-> "open"]
    /\ closeCode = [e \in Edges |-> 0]
    /\ session = [e \in Edges |-> "open"]
    /\ gauge = Cardinality(Edges)
    /\ delivered = [e \in Edges |-> 0]
    /\ closeReason = [e \in Edges |-> ""]
    /\ msgFailed = [e \in Edges |-> 0]
    /\ endErrors = {}
    /\ buffers = [u \in Users |-> <<>>]
    /\ appended = [u \in Users |-> <<>>]
    /\ clears = [u \in Users |-> 0]
    /\ cleared = [u \in Users |-> NoFilter]
    /\ received = [u \in Users |-> [q \in Queues |-> 0]]
    /\ kpc = [k \in Consumers |-> "none"]
    /\ kuser = [k \in Consumers |-> NoUser]
    /\ ktarget = [k \in Consumers |-> NoConn]
    /\ kres = [k \in Consumers |-> "none"]
    /\ kattempts = [k \in Consumers |-> 0]
    /\ kmsgs = [k \in Consumers |-> 0]
    /\ kdropped = [k \in Consumers |-> 0]
    /\ consumers = {}
    /\ subscribed = [k \in Consumers |-> FALSE]
    /\ kfwd = [k \in Consumers |-> "none"]
    /\ khandler = [k \in Consumers |-> "none"]
    /\ topicUp = TRUE
    /\ published = [t \in Topics |-> 0]
    /\ kinbox = [k \in Consumers |-> <<>>]
    /\ kgot = [k \in Consumers |-> <<>>]
    /\ pubLogged = 0
    /\ query = NoQuery
    /\ shutPc = 0
    /\ shutRan = {}
    /\ acks = [e \in Edges |-> 0]
    /\ warned = [e \in Edges |-> 0]
    /\ ptype = <<>>
    /\ settings = st
    /\ rejected = {}
    /\ starts = 0
    /\ spawned = 0

InitPersist == InitPersistWith(DefaultSettings)

NextPersist ==
    \/ SinkDown
    \/ SinkRecover
    \/ PersistenceStep
    \/ FlushStep
    \/ EdgeMessageStep

SpecPersist == InitPersist /\ [][NextPersist]_vars

----------------------------------------------------------------------------
\* The persistence pipeline fed by one connection: as above, with e1 the
\* only edge that sends messages.

PipelineMessageStep ==
    \/ RecvFeatures("e1")
    \/ RecvRaw("e1")

NextPipeline ==
    \/ SinkDown
    \/ SinkRecover
    \/ PersistenceStep
    \/ FlushStep
    \/ PipelineMessageStep

SpecPipeline == InitPersist /\ [][NextPipeline]_vars

----------------------------------------------------------------------------
\* Connections: edge and consumer connections come and go and consumers
\* send predictions back; the ticker is not started and the edges send no
\* samples.

NextConn ==
    \/ SinkDown
    \/ SinkRecover
    \/ FlushStep
    \/ EdgeLifeStep
    \/ ConsumerStep

SpecConn == Init /\ [][NextConn]_vars

----------------------------------------------------------------------------
\* Edge sessions: edge connections authenticate or are rejected, receive
\* messages whose handler raises, and go away, while the datastore fails and
\* recovers.

NextEdge ==
    \/ SinkDown
    \/ SinkRecover
    \/ EdgeLifeStep
    \/ EdgeErrorStep

SpecEdge == Init /\ [][NextEdge]_vars

----------------------------------------------------------------------------
\* Consumer sessions: a consumer connects, sends predictions and other
\* messages back, and its two tasks end, while the edge connections (in
\* their message loops, e1 as u1 and e2 as u2) come to an end.

EdgeExitStep ==
    \E e \in Edges :
        \/ ClientDrop(e)
        \/ Finally(e)
        \/ EndSession(e)

NextConsumer ==
    \/ SinkDown
    \/ SinkRecover
    \/ FlushStep
    \/ EdgeExitStep
    \/ ConsumerStep
    \/ ConsumerLifeStep

SpecConsumer == InitPersist /\ [][NextConsumer]_vars

----------------------------------------------------------------------------
\* One StreamBuffer on its own: the buffer of u1, created empty, is given
\* samples of any user and is cleared, wholly or for one user.

BufferStep ==
    \E u \in Users :
        \/ \E kind \in Kinds : BufferAdd("u1", u, kind)
        \/ BufferClear("u1")
        \/ BufferClearUser("u1", u)

SpecBuffer == InitPersist /\ [][BufferStep]_vars

----------------------------------------------------------------------------
\* Queries on one StreamBuffer: the buffer of u1 has been given some samples
\* (of any user and kind, at most MaxAppends of them), and one query,
\* get_last_n or get_range with any arguments, is made on it.

\* The (user_id, sample_type) pairs of the samples given to the buffer.
Histories == UNION {[1..n -> Users \X Kinds] : n \in 0..MaxAppends}

\* The samples of history h, timestamped in the order given.
SamplesOf(h) == [i \in 1..Len(h) |-> Sample(i - 1, h[i][1], h[i][2])]

\* The buffer after add_sample was called for each of samples in turn.
RECURSIVE AddAll(_, _)
AddAll(buf, samples) ==
    IF samples = <<>> THEN buf
    ELSE AddAll(AppendSample(buf, Head(samples)), Tail(samples))

InitQuery ==
    /\ running = FALSE
    /\ flushTask = "none"
    /\ cancelReq = FALSE
    /\ queue = [q \in Queues |-> <<>>]
    /\ nextId = [q \in Queues |-> 0]
    /\ frame = [f \in Flushers |-> IdleFrame]
    /\ stopPc = "idle"
    /\ stopMark = [q \in Queues |-> 0]
    /\ sinkUp = TRUE
    /\ sink = [q \in Queues |-> <<>>]
    /\ logged = [q \in Queues |-> {}]
    /\ exitFailures = 0
    /\ edges = [u \in Users |-> IF u = "u1" THEN "e1" ELSE "e2"]
    /\ epc = [e \in Edges |-> "loop"]
    /\ euser = [e \in Edges |-> IF e = "e1" THEN "u1" ELSE "u2"]
    /\ sock = [e \in Edges |-> "open"]
    /\ closeCode = [e \in Edges |-> 0]
    /\ session = [e \in Edges |-> "open"]
    /\ gauge = Cardinality(Edges)
    /\ delivered = [e \in Edges |-> 0]
    /\ closeReason = [e \in Edges |-> ""]
    /\ msgFailed = [e \in Edges |-> 0]
    /\ endErrors = {}
    /\ \E h \in Histories :
          /\ appended = [u \in Users |->
                            IF u = "u1" THEN SamplesOf(h) ELSE <<>>]
          /\ buffers = [u \in Users |-> AddAll(<<>>, appended[u])]
    /\ clears = [u \in Users |-> 0]
    /\ cleared = [u \in Users |-> NoFilter]
    /\ received = [u \in Users |-> [q \in Queues |-> 0]]
    /\ kpc = [k \in Consumers |-> "none"]
    /\ kuser = [k \in Consumers |-> NoUser]
    /\ ktarget = [k \in Consumers |-> NoConn]
    /\ kres = [k \in Consumers |-> "none"]
    /\ kattempts = [k \in Consumers |-> 0]
    /\ kmsgs = [k \in Consumers |-> 0]
    /\ kdropped = [k \in Consumers |-> 0]
    /\ consumers = {}
    /\ subscribed = [k \in Consumers |-> FALSE]
    /\ kfwd = [k \in Consumers |-> "none"]
    /\ khandler = [k \in Consumers |-> "none"]
    /\ topicUp = TRUE
    /\ published = [t \in Topics |-> 0]
    /\ kinbox = [k \in Consumers |-> <<>>]
    /\ kgot = [k \in Consumers |-> <<>>]
    /\ pubLogged = 0
    /\ query = NoQuery
    /\ shutPc = 0
    /\ shutRan = {}
    /\ acks = [e \in Edges |-> 0]
    /\ warned = [e \in Edges |-> 0]
    /\ ptype = <<>>
    /\ settings = DefaultSettings
    /\ rejected = {}
    /\ starts = 0
    /\ spawned = 0

SpecQuery == InitQuery /\ [][QueryStep]_vars

----------------------------------------------------------------------------
\* Fan-out: the edge connections (in their message loops, e1 as u1 and e2 as
\* u2) send features and raw messages while consumers subscribe and are
\* forwarded what was published, and the transport fails and recovers; the
\* datastore stays up.

FanoutFlushStep ==
    \E f \in Flushers :
        \/ CommitOk(f)
        \/ ExitOk(f)

NextFanout ==
    \/ TransportStep
    \/ EdgeMessageStep
    \/ FanoutFlushStep
    \/ ListenStep

SpecFanout == InitPersist /\ [][NextFanout]_vars

----------------------------------------------------------------------------
\* Message loops: the edge connections (in their message loops, e1 as u1
\* and e2 as u2) send features, raw, heartbeat and unknown messages; the
\* datastore and the transport stay up.

NextLoop ==
    \/ EdgeMessageStep
    \/ ControlStep
    \/ FanoutFlushStep

SpecLoop == InitPersist /\ [][NextLoop]_vars

----------------------------------------------------------------------------
\* Reconnecting edges: edge connections authenticate (as either user), go
\* away and are torn down; e1 sends features and raw messages while it is
\* in its message loop.  The datastore stays up.

NextReconnect ==
    \/ EdgeLifeStep
    \/ PipelineMessageStep
    \/ FanoutFlushStep

SpecReconnect == Init /\ [][NextReconnect]_vars

----------------------------------------------------------------------------
\* Feature switches: as the message loops above, under every setting of
\* enable_redis_pubsub and enable_database_persistence.

InitSwitches == \E st \in Switches : InitPersistWith(st)

NextSwitches ==
    \/ EdgeMessageStep
    \/ FanoutFlushStep

SpecSwitches == InitSwitches /\ [][NextSwitches]_vars

----------------------------------------------------------------------------
\* Refused records: the pipeline is started, e1 sends messages, a consumer
\* of u1 sends predictions with and without a session_id to u1's edge, and
\* the ticker and the threshold flush them; the datastore stays up.

NextReject ==
    \/ FirstStart
    \/ Tick
    \/ \E k \in Senders :
          \/ ConsumerConnect(k, "u1")
          \/ ConsumerSend(k)
          \/ SendOk(k)
    \/ PipelineMessageStep
    \/ RejectStep
    \/ FanoutFlushStep

SpecReject == InitPersist /\ [][NextReject]_vars

\* The scheduling: the event loop resumes every task that can run (the
\* ticker when its sleep is over, a flush when the datastore has answered).
FairReject ==
    /\ WF_vars(FirstStart)
    /\ WF_vars(Tick)
    /\ \A f \in Flushers :
          /\ WF_vars(CommitOk(f))
          /\ WF_vars(CommitRejected(f))
          /\ WF_vars(ExitOk(f))

SpecRejectFair == SpecReject /\ FairReject

----------------------------------------------------------------------------
\* start() called again and again: the pipeline is started, e1 sends
\* messages and the ticker and the threshold flush them; stop() is not
\* called and the datastore stays up.

NextStart ==
    \/ Start
    \/ Tick
    \/ PipelineMessageStep
    \/ FanoutFlushStep

SpecStart == InitPersist /\ [][NextStart]_vars

----------------------------------------------------------------------------
\* The lifecycle: the pipeline is started, the edge connections come to an
\* end, and lifespan shuts the broker down.

NextLifecycle ==
    \/ Start
    \/ EdgeExitStep
    \/ ShutdownStep

SpecLifecycle == InitPersist /\ [][NextLifecycle]_vars

----------------------------------------------------------------------------
\* Properties.

\* The flushes of queue q that are in flight.
InFlight(q) == {f \in Flushers : frame[f].st # "idle" /\ frame[f].q = q}

\* Record r of queue q is still on its way: in the queue, or in the batch of
\* a flush in flight.
Pending(q, r) ==
    \/ r \in Elems(queue[q])
    \/ \E f \in InFlight(q) : r \in Elems(frame[f].batch)

Producers == Edges \cup Consumers

\* C1: a failed flush puts its batch back at the front of the queue, so
\* while the pipeline runs (enqueues, ticker and threshold flushes, stop()
\* not called) each queue holds its records in enqueue order (ascending
\* ids).
C1_QueueInEnqueueOrder ==
    stopPc = "idle" => \A q \in Queues : Ascending(queue[q])

\* C2: no two flushes of the same queue, started by the ticker or by the
\* threshold test of an enqueue, are in flight at the same time.
C2_OneFlushPerQueue ==
    \A q \in Queues : Cardinality(InFlight(q) \ {"stop"}) <= 1

\* C3: once stop() has returned, every record enqueued before stop() was
\* called is committed or belongs to a batch whose failure was logged; a
\* record still waiting in a queue or in a flush in flight is not counted
\* as dropped.
C3_StopDropsNothing ==
    stopPc = "returned" =>
        \A q \in Queues : \A r \in 0..(stopMark[q] - 1) :
            \/ r \in Elems(sink[q])
            \/ r \in logged[q]
            \/ Pending(q, r)

\* C4 as stated: once stop() has returned, no record enqueued before stop()
\* was called is left in a queue.
C4_QueuesEmptyAfterStop ==
    stopPc = "returned" =>
        \A q \in Queues : \A r \in Elems(queue[q]) : r >= stopMark[q]

\* C4 as amended: once stop() has returned, the only records enqueued before
\* stop() was called that a queue holds are records of batches whose flush
\* failed and was logged.
C4_OnlyFailedBatchesLeft ==
    stopPc = "returned" =>
        \A q \in Queues : \A r \in Elems(queue[q]) :
            r >= stopMark[q] \/ r \in logged[q]

\* C4, its case: stop() has returned after its final flush failed, and the
\* queue holds the failed batch again.
C4_Witness ==
    /\ stopPc = "returned"
    /\ \E q \in Queues :
          /\ stopMark[q] > 0
          /\ queue[q] # <<>>
          /\ Elems(queue[q]) \subseteq logged[q]
          /\ sink[q] = <<>>

\* Task f's flush returns successfully in this step.
FlushReturnsOk(f) ==
    /\ frame[f].st = "exit"
    /\ frame'[f].st = "idle"
    /\ sinkUp

C6_RetryKeepsOrder ==
    stopPc = "idle" =>
        \A q \in Queues : \A i, j \in 1..Len(sink[q]) :
            (i < j /\ sink[q][j] \in logged[q]) => sink[q][i] <= sink[q][j]

\* C7: whatever the sink does, an edge handler that calls add_prediction or
\* add_raw_sample gets a normal return: every edge session stays in its
\* message loop (reading, or inside the enqueue's flush).
C7_IngressSurvivesSinkFailure ==
    \A e \in Edges :
        /\ epc[e] \in {"loop", "add"}
        /\ epc[e] = "add" <=> frame[e].st # "idle"

\* C7, its case: the sink has accepted nothing, flushes triggered by the
\* edges' enqueues (no ticker, no stop) have failed and were logged, and
\* both edges are back in their message loops.
C7_Witness ==
    /\ ~sinkUp
    /\ flushTask = "none"
    /\ stopPc = "idle"
    /\ \A q \in Queues : sink[q] = <<>>
    /\ \E q \in Queues : logged[q] # {} /\ Len(queue[q]) > BatchSize
    /\ \A e \in Edges : epc[e] = "loop"

\* C8: once connect_edge has replaced the entry of a user, the connection
\* registered before is closed.
C8_PriorConnectionClosed ==
    \A e1, e2 \in Edges :
        (e1 # e2 /\ euser[e1] # NoUser /\ euser[e1] = euser[e2]
            /\ edges[euser[e1]] = e2) => sock[e1] = "closed"

\* A connection is active: registered, or in its message loop.
Active(e) ==
    /\ euser[e] # NoUser
    /\ \/ edges[euser[e]] = e
       \/ epc[e] \in {"loop", "add"}

\* C9: no two edge connections of one user are active at the same time.
C9_OneActiveEdgePerUser ==
    \A e1, e2 \in Edges :
        (e1 # e2 /\ Active(e1) /\ Active(e2)) => euser[e1] # euser[e2]

\* C10: send_to_edge returns delivered only when an edge was registered and
\* the send went through; with no edge registered it returns not-delivered
\* and changes nothing else; when the send raises it removes the registry
\* entry of the user, returns not-delivered and makes no second attempt.
C10_SendToEdge ==
    [][\A k \in Consumers :
          /\ (kres'[k] = "delivered" /\ kres[k] # "delivered") =>
                /\ kpc[k] = "sending"
                /\ ktarget[k] \in Edges
                /\ sock[ktarget[k]] = "open"
                /\ delivered'[ktarget[k]] = delivered[ktarget[k]] + 1
          /\ (kmsgs'[k] # kmsgs[k] /\ ~Registered(edges, kuser[k])) =>
                /\ kres'[k] = "not_delivered"
                /\ kpc'[k] = "loop"
                /\ kattempts'[k] = 0
                /\ UNCHANGED <<pvars, svars, evars>>
          /\ (kpc[k] = "sending" /\ kpc'[k] # "sending"
                /\ sock[ktarget[k]] # "open") =>
                /\ ~Registered(edges', kuser[k])
                /\ kres'[k] = "not_delivered"
                /\ kattempts'[k] = 1
                /\ delivered' = delivered]_vars

\* C10, its case: a first prediction was delivered to the edge; the send of
\* the next one raised, the entry is gone and the call returned
\* not-delivered after one attempt.
C10_Witness ==
    \E k \in Consumers :
        /\ kpc[k] = "loop"
        /\ kres[k] = "not_delivered"
        /\ kattempts[k] = 1
        /\ ktarget[k] \in Edges
        /\ delivered[ktarget[k]] >= 1
        /\ ~Registered(edges, kuser[k])

\* C11: an authentication failure (no auth message in time, a wrong api_key,
\* no user_id) closes the socket with code 1008 and ends the handler; the
\* step creates no session row, registers nothing and creates no
\* StreamBuffer, and a connection closed with 1008 stays closed, without a
\* session row, a user or a registry entry.
C11_AuthFailureTerminal ==
    [][\A e \in Edges :
          /\ (epc[e] = "await_auth" /\ sock[e] = "open"
                /\ epc'[e] = "closed") =>
                /\ sock'[e] = "closed"
                /\ closeCode'[e] = PolicyViolation
                /\ closeReason'[e] \in AuthFailures
                /\ UNCHANGED <<edges, session, buffers, gauge>>
          /\ closeCode'[e] = PolicyViolation =>
                /\ epc'[e] = "closed"
                /\ session'[e] = "none"
                /\ euser'[e] = NoUser
                /\ \A u \in Users : edges'[u] # e]_vars

\* C11, its case: a connection was rejected with 1008 for a wrong api_key,
\* and there is no session row, no registry entry and no StreamBuffer.
C11_Witness ==
    \E e \in Edges :
        /\ epc[e] = "closed"
        /\ closeCode[e] = PolicyViolation
        /\ closeReason[e] = "Invalid API key"
        /\ \A d \in Edges : session[d] = "none"
        /\ \A u \in Users : edges[u] = NoConn /\ buffers[u] = NoBuffer

\* C12: a connection that is registered (send_to_edge reaches it) has its
\* session row and its user's StreamBuffer.
C12_RegisteredAfterSessionAndBuffer ==
    \A e \in Edges :
        (euser[e] # NoUser /\ edges[euser[e]] = e) =>
            /\ session[e] # "none"
            /\ buffers[euser[e]] # NoBuffer

\* C13: when the handler of a connection has exited, the session row created
\* for it has its end_time set, or the failure of the update was logged.
C13_SessionEndedOnExit ==
    \A e \in Edges :
        (epc[e] = "closed" /\ session[e] # "none") =>
            \/ session[e] = "ended"
            \/ e \in endErrors

\* C14: after a handler exception was counted for a message of a
\* connection, the connection is still in its message loop and still
\* registered.
C14_HandlerErrorAbsorbed ==
    \A e \in Edges :
        msgFailed[e] > 0 =>
            /\ epc[e] \in {"loop", "add"}
            /\ edges[euser[e]] = e

\* C15: once consumer_endpoint has returned, the consumer's
\* receive_from_consumer task is not running any more.
C15_NoTaskAfterHandlerReturns ==
    \A k \in Consumers : khandler[k] = "returned" => kpc[k] = "closed"

\* The send_to_edge call of consumer k returns in this step.
SendReturns(k) == kpc[k] = "sending" /\ kpc'[k] # "sending"

\* C16: a prediction message is sent to the edge registered for the
\* consumer's user, or to nobody when none is registered, and a prediction
\* record is enqueued exactly when that send succeeded; a message of another
\* type is neither sent to an edge nor enqueued.
C16_PredictionBackPath ==
    [][/\ \A k \in Consumers :
            /\ kmsgs'[k] # kmsgs[k] =>
                  /\ UNCHANGED <<nextId, queue, frame, delivered>>
                  /\ IF Registered(edges, kuser[k])
                     THEN /\ kpc'[k] = "sending"
                          /\ ktarget'[k] = edges[kuser[k]]
                          /\ euser[ktarget'[k]] = kuser[k]
                     ELSE kpc'[k] = "loop" /\ kres'[k] = "not_delivered"
            /\ SendReturns(k) =>
                  IF kres'[k] = "delivered"
                  THEN /\ delivered'[ktarget[k]] = delivered[ktarget[k]] + 1
                       /\ nextId'["pred"] = nextId["pred"] + 1
                       /\ \/ nextId["pred"] \in Elems(queue'["pred"])
                          \/ nextId["pred"] \in Elems(frame'[k].batch)
                  ELSE UNCHANGED <<nextId, queue, frame, delivered>>
            /\ kdropped'[k] # kdropped[k] =>
                  UNCHANGED <<nextId, queue, frame, delivered, edges,
                              ktarget, kres, kattempts, kpc>>
       /\ nextId' # nextId =>
            \E k \in Consumers : SendReturns(k) /\ kres'[k] = "delivered"]_vars

\* C16, its case: of two predictions the first was delivered and enqueued,
\* the second was not delivered and not enqueued, and a message of another
\* type was dropped.
C16_Witness ==
    \E k \in Consumers :
        /\ kmsgs[k] = 2
        /\ kdropped[k] = 1
        /\ kpc[k] = "loop"
        /\ kres[k] = "not_delivered"
        /\ nextId["pred"] = 1
        /\ \E e \in Edges : delivered[e] = 1

\* C17: while the pipeline runs (stop() not called), the samples of a user
\* are in receive order in the user's StreamBuffer, and a persistence queue
\* whose records were all received on that user's connection holds them in
\* receive order (ascending ids).
C17_ReceiveOrderKept ==
    stopPc = "idle" =>
        \A u \in Users :
            /\ \A i, j \in 1..Len(buffers[u]) :
                  i < j => buffers[u][i].seq < buffers[u][j].seq
            /\ \A q \in Queues :
                  received[u][q] = nextId[q] => Ascending(queue[q])

\* C18: while the pipeline runs (stop() not called) and no flush has failed,
\* the records of each queue are in the sink in enqueue order.
C18_SinkInEnqueueOrder ==
    (stopPc = "idle" /\ \A q \in Queues : logged[q] = {}) =>
        \A q \in Queues : Ascending(sink[q])

\* C19: a StreamBuffer never retains more samples than its capacity.
C19_SizeWithinCapacity ==
    \A u \in Users : buffers[u] # NoBuffer => Len(buffers[u]) <= Capacity

\* C19, its case: a buffer that was cleared and given more samples than its
\* capacity is full.
C19_Witness ==
    \E u \in Users :
        /\ buffers[u] # NoBuffer
        /\ clears[u] > 0
        /\ Len(appended[u]) > Capacity
        /\ Len(buffers[u]) = Capacity
        /\ \E i \in 1..Len(buffers[u]) : buffers[u][i].user # u

\* C20: an append leaves a buffer that was never cleared with exactly the
\* last min(k, Capacity) of the k samples appended so far, in append order;
\* an append to a full buffer drops the oldest sample and nothing else, an
\* append to a buffer that is not full drops nothing.
C20_RingEviction ==
    [][\A u \in Users :
          (buffers[u] # NoBuffer /\ appended'[u] # appended[u]) =>
              LET s == appended'[u][Len(appended'[u])]
              IN  /\ appended'[u] = Append(appended[u], s)
                  /\ clears[u] = 0 =>
                        buffers'[u] = LastN(appended'[u], Capacity)
                  /\ IF Len(buffers[u]) = Capacity
                     THEN buffers'[u] = Append(Tail(buffers[u]), s)
                     ELSE buffers'[u] = Append(buffers[u], s)]_vars

\* C20, its case: a buffer that was never cleared has been given more
\* samples than its capacity and holds the last Capacity of them.
C20_Witness ==
    \E u \in Users :
        /\ buffers[u] # NoBuffer
        /\ clears[u] = 0
        /\ Len(appended[u]) = Capacity + 2
        /\ buffers[u] = LastN(appended[u], Capacity)
        /\ buffers[u][1].seq = 2

----------------------------------------------------------------------------
\* The samples of the queried buffer that match the filters of the latest
\* query, oldest first.
Matching ==
    LET Wanted(x) == /\ query.user \in {NoFilter, x.user}
                     /\ query.kind \in {NoFilter, x.kind}
    IN  SelectSeq(buffers["u1"], Wanted)

\* The smaller of two numbers.
Min(a, b) == IF a <= b THEN a ELSE b

\* C21: get_last_n(n) returns the first min(n, count) elements of the
\* newest-first listing of the matching samples: nothing for n = 0, all of
\* them for n larger than their number.
C21_LastNIsPrefixOfNewestFirst ==
    query.op = "get_last_n" =>
        LET newestFirst == [i \in 1..Len(Matching) |->
                               Matching[Len(Matching) + 1 - i]]
        IN  query.result =
                SubSeq(newestFirst, 1, Min(query.n, Len(Matching)))

\* C22: get_range(start, end, filters) returns exactly the retained samples
\* with start <= ts <= end that match the filters, each once, oldest first;
\* it is empty on an empty buffer and for a user or kind no sample has.
C22_RangeExactAndOldestFirst ==
    query.op = "get_range" =>
        LET r == query.result
        IN  /\ Elems(r) = {x \in Elems(Matching) :
                              query.lo <= x.seq /\ x.seq <= query.hi}
            /\ \A i \in 1..Len(r) : \A j \in 1..Len(r) :
                   i < j => r[i].seq < r[j].seq
            /\ (buffers["u1"] = <<>> => r = <<>>)
            /\ (query.user \notin Users \cup {NoFilter} => r = <<>>)
            /\ (query.kind \notin Kinds \cup {NoFilter} => r = <<>>)

\* A range query with a user and a kind filter returned two samples, the
\* first with the timestamp start and the last with the timestamp end.
C22_Witness ==
    /\ query.op = "get_range"
    /\ query.user \in Users
    /\ query.kind \in Kinds
    /\ Len(query.result) = 2
    /\ query.result[1].seq = query.lo
    /\ query.result[2].seq = query.hi

----------------------------------------------------------------------------
\* The messages consumer k's subscription was handed: those waiting in its
\* pubsub and those forwarded to it.
Handed(k) ==
    {kinbox[k][i].channel : i \in 1..Len(kinbox[k])}
        \cup {kgot[k][i].channel : i \in 1..Len(kgot[k])}

\* C23: a message published on user:{u}:features or user:{u}:raw is handed
\* to every consumer subscribed for u at that moment and to no other
\* consumer, and a consumer bound to u holds and is sent messages of u's
\* topics only.
C23_TopicIsolationAndFanout ==
    [][/\ \A k \in Consumers : \A t \in Handed(k)' : t[2] = kuser'[k]
       /\ \A t \in Topics :
             (published'[t] = published[t] + 1 /\ topicUp) =>
                 \A k \in Consumers :
                     IF subscribed[k] /\ kuser[k] = t[2]
                     THEN /\ Len(kinbox'[k]) = Len(kinbox[k]) + 1
                          /\ kinbox'[k][Len(kinbox'[k])].channel = t
                          /\ SubSeq(kinbox'[k], 1, Len(kinbox[k])) = kinbox[k]
                     ELSE kinbox'[k] = kinbox[k]]_vars

\* Both consumers are subscribed for u1 and each was sent a message of u1,
\* while a message of u2 was published and neither holds it.
C23_Witness ==
    /\ \A k \in Consumers :
          /\ subscribed[k]
          /\ kuser[k] = "u1"
          /\ kgot[k] # <<>>
          /\ kgot[k][1].channel = Topic("u1", "features")
          /\ kinbox[k] = <<>>
    /\ published[Topic("u2", "raw")] = 1

\* C24: when shutdown is over, whether or not one of its steps failed, every
\* shutdown step was executed.
C24_ShutdownRunsEveryStep ==
    shutPc \in {-1, Len(ShutdownSteps) + 1} =>
        shutRan = Elems(ShutdownSteps)

\* The records of queue q that are neither on their way nor in the sink.
Lost(q) ==
    {r \in 0..(nextId[q] - 1) : ~Pending(q, r) /\ r \notin Elems(sink[q])}

\* How many times r occurs in s.
Count(s, r) == Cardinality({i \in 1..Len(s) : s[i] = r})

\* The records that are in the sink more than once.
Duplicated(q) == {r \in Elems(sink[q]) : Count(sink[q], r) > 1}

\* C25: with no ticker running (stop() was called before, or start() never
\* was), no step of stop() raises, starts the ticker or sets _running, and
\* none loses a record or commits a record a second time.
C25_StopIdempotent ==
    [][(/\ flushTask \in {"none", "finished"}
        /\ (stopPc' # stopPc \/ frame'["stop"] # frame["stop"]))
       => /\ stopPc' # "raised"
          /\ flushTask' = flushTask
          /\ running' = running \/ running' = FALSE
          /\ \A q \in Queues :
                /\ Lost(q)' = Lost(q)
                /\ Duplicated(q)' = Duplicated(q)]_vars

\* C26: the object published for a features or raw message, as a consumer's
\* subscription holds it and as it is sent to the consumer, is the edge
\* envelope without its type key.
C26_PayloadWithoutType ==
    \A k \in Consumers :
        /\ \A i \in 1..Len(kinbox[k]) :
              "type" \notin DOMAIN Unpackb(kinbox[k][i].data)
        /\ \A i \in 1..Len(kgot[k]) :
              "type" \notin DOMAIN kgot[k][i].data

\* C27: while the ticker's flush of one queue is in flight (or stuck on the
\* sink) and the other queue holds records, the next tick can take place.
C27_FlushesDoNotBlock ==
    (/\ frame["ticker"].st # "idle"
     /\ ~cancelReq
     /\ \E q \in Queues \ {frame["ticker"].q} : queue[q] # <<>>)
        => ENABLED Tick

\* The newest record of batch b.
Newest(b) == CHOOSE r \in Elems(b) : \A x \in Elems(b) : x <= r

\* C28: when a flush fails, every record of its batch is in the queue
\* exactly once as the flush returns; if no record was enqueued since the
\* flush started (the newest record of the queue is in the batch), the
\* queue is as long as it was when the flush started.
C28_FailedFlushKeepsRecords ==
    [][\A f \in Flushers :
          (/\ frame[f].st # "idle"
           /\ ~sinkUp
           /\ ~(f = "ticker" /\ cancelReq)
           /\ \/ frame'[f].st # frame[f].st
              \/ frame'[f].q # frame[f].q
              \/ frame'[f].batch # frame[f].batch)
          => LET q == frame[f].q
                 b == frame[f].batch
             IN  /\ \A r \in Elems(b) : Count(queue'[q], r) = 1
                 /\ (nextId[q] = Newest(b) + 1
                        => Len(queue'[q]) = Len(b))]_vars

\* Record r of queue q is in the queue of qs or in the batch of a flush in
\* flight of frs.
PendingIn(qs, frs, q, r) ==
    \/ r \in Elems(qs[q])
    \/ \E f \in Flushers :
          /\ frs[f].st # "idle"
          /\ frs[f].q = q
          /\ r \in Elems(frs[f].batch)

\* C29: each features (raw) message of the edge of user u is appended once
\* to u's StreamBuffer with kind features (raw), published once on
\* user:{u}:features (user:{u}:raw), and enqueued once on the prediction
\* (raw-sample) queue, a prediction as "workload_edge" of "edge_relay";
\* nothing else is appended, published or enqueued.
C29_IngressFanout ==
    [][\A u \in Users : \A q \in Queues :
          received'[u][q] = received[u][q] + 1 =>
              LET kind == KindOf(q)
                  x    == [seq |-> Len(appended[u]), user |-> u,
                           kind |-> kind]
              IN  /\ appended' = [appended EXCEPT ![u] = Append(@, x)]
                  /\ buffers'[u] # <<>>
                  /\ buffers'[u][Len(buffers'[u])] = x
                  /\ \A v \in Users \ {u} : buffers'[v] = buffers[v]
                  /\ published' = [published EXCEPT
                                      ![<<"user", u, kind>>] = @ + 1]
                  /\ nextId' = [nextId EXCEPT ![q] = @ + 1]
                  /\ PendingIn(queue', frame', q, nextId[q])
                  /\ ptype' = IF q = "pred"
                              THEN Append(ptype,
                                          <<"workload_edge", "edge_relay">>)
                              ELSE ptype]_vars

\* u1's edge has sent one features and one raw message: both are in u1's
\* buffer, each of u1's topics was published on once, and each queue was
\* given one record.
C29_Witness ==
    /\ received["u1"] = [q \in Queues |-> 1]
    /\ Len(buffers["u1"]) = 2
    /\ \A kind \in Kinds : published[Topic("u1", kind)] = 1
    /\ nextId = [q \in Queues |-> 1]
    /\ ptype = <<RecordLabels("e1")>>

\* C30: a message handled while publish raises is still appended to the
\* buffer and enqueued, no failure is counted, and the handler is back in
\* the message loop (or waiting for the flush its enqueue started).
C30_PublishFailureAbsorbed ==
    [][\A e \in Edges : \A q \in Queues :
          (/\ received'[euser[e]][q] = received[euser[e]][q] + 1
           /\ ~topicUp)
          => /\ Len(appended'[euser[e]]) = Len(appended[euser[e]]) + 1
             /\ buffers'[euser[e]] # <<>>
             /\ buffers'[euser[e]][Len(buffers'[euser[e]])].kind = KindOf(q)
             /\ nextId'[q] = nextId[q] + 1
             /\ PendingIn(queue', frame', q, nextId[q])
             /\ msgFailed' = msgFailed
             /\ epc'[e] \in {"loop", "add"}
             /\ sock'[e] = "open"
             /\ pubLogged' = pubLogged + 1]_vars

\* u1's edge sent a features message while the transport was down: the
\* failure was logged, the sample is in the buffer, the record in the
\* queue, and the edge is in its message loop with a subscriber that got
\* nothing.
C30_Witness ==
    /\ pubLogged = 1
    /\ received["u1"]["pred"] = 1
    /\ Len(buffers["u1"]) = 1
    /\ queue["pred"] = <<0>>
    /\ epc["e1"] = "loop"
    /\ msgFailed["e1"] = 0
    /\ subscribed["k1"] /\ kuser["k1"] = "u1" /\ Handed("k1") = {}

----------------------------------------------------------------------------
\* C31: a heartbeat is answered with one heartbeat_ack and a message of
\* unknown type with none; after either the handler is in its message loop
\* on an open socket, and the buffers, the topics, the persistence queues
\* and the registry are as before.
C31_ControlMessagesChangeNothing ==
    [][\A e \in Edges :
          (acks'[e] # acks[e] \/ warned'[e] # warned[e])
          => /\ \/ acks'[e] = acks[e] + 1 /\ warned' = warned
                \/ warned'[e] = warned[e] + 1 /\ acks' = acks
             /\ epc'[e] = "loop"
             /\ sock'[e] = "open"
             /\ session'[e] = session[e]
             /\ buffers' = buffers
             /\ published' = published
             /\ kinbox' = kinbox
             /\ queue' = queue
             /\ nextId' = nextId
             /\ frame' = frame
             /\ edges' = edges]_vars

\* Between two features messages that are both in its buffer and in the
\* prediction queue's history, u1's edge was answered a heartbeat and had a
\* message of unknown type dropped, and is in its message loop.
C31_Witness ==
    /\ acks["e1"] = 1
    /\ warned["e1"] = 1
    /\ epc["e1"] = "loop"
    /\ edges["u1"] = "e1"
    /\ Len(buffers["u1"]) = 2
    /\ nextId["pred"] = 2
    /\ published[Topic("u1", "features")] = 2

----------------------------------------------------------------------------
\* The positions of buffer b, ascending, whose sample is not of user u.
Kept(b, u) == {i \in 1..Len(b) : b[i].user # u}

\* C32: clear(user_id) leaves the buffer with exactly the samples of the
\* other users, each once and in their order before the call, within the
\* same capacity; clear() leaves the buffer empty.
C32_ClearRemovesExactlyTheUser ==
    [][\A b \in Users :
          (buffers[b] # NoBuffer /\ clears'[b] # clears[b]) =>
              IF cleared'[b] = NoFilter
              THEN buffers'[b] = <<>>
              ELSE LET old == buffers[b]
                       new == buffers'[b]
                       keep == Kept(old, cleared'[b])
                   IN  /\ Len(new) = Cardinality(keep)
                       /\ \A i \in 1..Len(new) : new[i].user # cleared'[b]
                       /\ \A i \in keep :
                              new[Cardinality({j \in keep : j <= i})] = old[i]
                       /\ Len(new) <= Capacity]_vars

\* C32, its case: a full buffer holding a sample of each user was cleared
\* for u1 and holds only the sample of u2.
C32_Witness ==
    /\ clears["u1"] = 1
    /\ cleared["u1"] = "u1"
    /\ Len(appended["u1"]) >= Capacity
    /\ Len(buffers["u1"]) = 1
    /\ buffers["u1"][1].user = "u2"

----------------------------------------------------------------------------
\* C33: a user's StreamBuffer comes into being, empty, when a connection
\* that authenticated as that user has been sent its auth_ack; from then on
\* it is never removed, and a step that appends nothing to it (the
\* teardown of the user's connection and the authentication of a later one
\* included) leaves its samples as they are.
C33_BufferOutlivesConnections ==
    [][\A u \in Users :
          /\ buffers[u] # NoBuffer =>
                /\ buffers'[u] # NoBuffer
                /\ appended'[u] = appended[u] => buffers'[u] = buffers[u]
                /\ buffers'[u] = LastN(appended'[u], Capacity)
          /\ (buffers[u] = NoBuffer /\ buffers'[u] # NoBuffer) =>
                /\ buffers'[u] = <<>>
                /\ \E e \in Edges :
                      /\ euser[e] = u
                      /\ epc[e] = "send_ack"
                      /\ epc'[e] = "loop"]_vars

\* C33, its case: e1 sent two samples as u1 and its handler has returned;
\* e2, which sends none, authenticated as u1 and is in its message loop;
\* the buffer of u1 holds the two samples.
C33_Witness ==
    /\ epc["e1"] = "closed"
    /\ euser["e1"] = "u1"
    /\ session["e1"] = "ended"
    /\ epc["e2"] = "loop"
    /\ euser["e2"] = "u1"
    /\ edges["u1"] = "e2"
    /\ Len(buffers["u1"]) = 2
    /\ buffers["u1"] = appended["u1"]

----------------------------------------------------------------------------
\* C34: with pub/sub disabled no topic is ever published to, with
\* persistence disabled no record is ever enqueued (nor written), and under
\* every setting each features or raw message received was appended to its
\* user's buffer.
C34_SwitchesGatePublishAndEnqueue ==
    /\ ~settings.pubsub =>
          \A t \in Topics : published[t] = 0
    /\ ~settings.db =>
          \A q \in Queues :
              /\ nextId[q] = 0
              /\ queue[q] = <<>>
              /\ sink[q] = <<>>
    /\ \A u \in Users :
          /\ Len(appended[u]) = received[u]["pred"] + received[u]["raw"]
          /\ buffers[u] = LastN(appended[u], Capacity)

\* C34, its case: with both switches off, u1's edge sent a features and a
\* raw message, and both are in u1's buffer.
C34_Witness ==
    /\ ~settings.pubsub
    /\ ~settings.db
    /\ received["u1"]["pred"] = 1
    /\ received["u1"]["raw"] = 1
    /\ Len(buffers["u1"]) = 2

----------------------------------------------------------------------------
\* C35: the registry entry of a user is removed only on behalf of the
\* connection it refers to: by the teardown of that connection's handler,
\* or by a send_to_edge that failed on that connection.
C35_EntryRemovedOnlyByItsConnection ==
    [][\A u \in Users :
          (edges[u] # NoConn /\ edges'[u] = NoConn) =>
              LET b == edges[u]
              IN  \/ /\ epc[b] \in {"loop", "teardown"}
                     /\ epc'[b] = "end_session"
                  \/ \E k \in Senders :
                        /\ kpc[k] = "sending"
                        /\ kpc'[k] # "sending"
                        /\ ktarget[k] = b]_vars

----------------------------------------------------------------------------
\* C36: an edge connection that has not yet been sent its auth_ack (it is
\* waiting for the auth message, in create_session, or about to send the
\* auth_ack) has been sent no prediction.
C36_AuthAckComesFirst ==
    \A e \in Edges :
        epc[e] \in {"await_auth", "create_session", "send_ack"} =>
            delivered[e] = 0

----------------------------------------------------------------------------
\* C37: a connection whose handler has returned is not in the registry, and
\* the edge-connection gauge counts exactly the connections between their
\* registration and their teardown.
C37_NoRegistrationLeak ==
    /\ \A e \in Edges :
          epc[e] = "closed" => \A u \in Users : edges[u] # e
    /\ gauge = Cardinality({e \in Edges :
                  epc[e] \in {"create_session", "send_ack", "loop",
                              "teardown"}})

----------------------------------------------------------------------------
\* C38: no record is in the sink more than once, and no record that is in
\* the sink is on its queue again (a batch is put back for retry only if
\* none of its records were committed).
C38_AtMostOncePersistence ==
    \A q \in Queues :
        /\ Duplicated(q) = {}
        /\ Elems(queue[q]) \cap Elems(sink[q]) = {}

----------------------------------------------------------------------------
\* C39: with a datastore that is up and a running ticker, every record of
\* the prediction queue that has a session_id is eventually in the sink,
\* whatever records without one the queue holds.
C39_ValidRecordsEventuallyPersisted ==
    \A r \in 0..(MaxRec - 1) :
        (r < nextId["pred"] /\ r \notin rejected)
            ~> (r \in Elems(sink["pred"]))

----------------------------------------------------------------------------
\* C40: however often start() was called, create_task was called once, and
\* the one ticker task is the loop that sleeps or flushes.
C40_StartIdempotent ==
    /\ spawned = IF starts > 0 THEN 1 ELSE 0
    /\ starts > 0 => running /\ flushTask \in {"sleep", "flushing"}

\* C40, its case: start() was called a second time while the ticker's
\* flush was waiting for the datastore.
C40_Witness ==
    /\ starts = 2
    /\ spawned = 1
    /\ flushTask = "flushing"
    /\ frame["ticker"].st = "commit"

====
